---- MODULE Spec2Model ----
(***************************************************************************)
(* peak-check: on-demand status refresh for mountain peaks.                *)
(*                                                                         *)
(* The model follows src/lib/fetch-status-on-demand.ts (the fetch          *)
(* orchestrator and the freshness evaluator), the status parser, the two   *)
(* upstream clients, the peak page, the conditions route, the scheduled    *)
(* jobs and the maintenance scripts.  A text is the sequence of its        *)
(* character codes, in the state as in the parser.                         *)
(***************************************************************************)
EXTENDS Integers, Sequences, FiniteSets, TLC

(***************************************************************************)
(* Bounds of the model.                                                    *)
(***************************************************************************)
\* the clock counts hours and stops here
MaxTime == 7
\* hours that pass in one step of the clock
TickHours == 7
\* snapshots a store holds at most
MaxSnapshots == 2
\* status fetches in flight at most
MaxInFlight == 2
MaxWeather == 1

(***************************************************************************)
(* Program constants.                                                      *)
(***************************************************************************)
STALE_THRESHOLD_HOURS == 6
WEATHER_STALE_THRESHOLD_HOURS == 3

(***************************************************************************)
(* Texts.  A text is the sequence of its character codes; Chars gives the  *)
(* codes of a string literal.                                              *)
(***************************************************************************)
\* the characters of code 32 up to 126 in the order of their codes, but for
\* the backtick (96), which no string of the model holds
Ascii ==
    " !\"#$%&'()*+,-./0123456789:;<=>?@ABCDEFGHIJKLMNOPQRSTUVWXYZ[\\]^_abcdefghijklmnopqrstuvwxyz{|}~"

\* String.prototype.charCodeAt of the strings of one character
charCode ==
    [ch \in {SubSeq(Ascii, n, n) : n \in 1..94} |->
        LET n == CHOOSE x \in 1..94 : SubSeq(Ascii, x, x) = ch
        IN  IF n <= 64 THEN n + 31 ELSE n + 32]

\* the character codes of a string
Chars(s) == [i \in 1..Len(s) |-> charCode[SubSeq(s, i, i)]]

\* String.prototype.toLowerCase on one character code (ASCII)
lowerCode(c) == IF c >= 65 /\ c <= 90 THEN c + 32 ELSE c

\* String.prototype.toLowerCase
toLowerCase(t) == [i \in 1..Len(t) |-> lowerCode(t[i])]

\* the character classes of the regular expressions: \s, [a-zA-Z], \w, \d
isSpace(c) == c \in {32, 9, 10, 11, 12, 13}
isAlpha(c) == (c >= 65 /\ c <= 90) \/ (c >= 97 /\ c <= 122)
isDigit(c) == c >= 48 /\ c <= 57
isWord(c) == isAlpha(c) \/ isDigit(c) \/ c = 95

\* t has p at position i
hasAt(t, p, i) ==
    /\ i + Len(p) - 1 <= Len(t)
    /\ \A k \in 1..Len(p) : t[i + k - 1] = p[k]

\* String.prototype.includes, for a pattern given as a string
includes(t, p) ==
    LET Occurs(codes) == \E i \in 1..(Len(t) - Len(codes) + 1) : hasAt(t, codes, i)
    IN  Occurs(Chars(p))

\* String.prototype.trim
trim(t) ==
    LET solid == {i \in 1..Len(t) : ~isSpace(t[i])}
    IN  IF solid = {} THEN <<>>
        ELSE SubSeq(t, CHOOSE i \in solid : \A j \in solid : i <= j,
                       CHOOSE i \in solid : \A j \in solid : j <= i)

\* the texts of a list put one after the other
RECURSIVE flatRange(_, _, _)
flatRange(parts, lo, hi) ==
    IF lo > hi THEN <<>>
    ELSE IF lo = hi THEN parts[lo]
    ELSE flatRange(parts, lo, (lo + hi) \div 2) \o flatRange(parts, (lo + hi) \div 2 + 1, hi)
flat(parts) == flatRange(parts, 1, Len(parts))

\* Array.prototype.join
join(parts, sep) ==
    flat([k \in 1..Len(parts) |-> IF k < Len(parts) THEN parts[k] \o sep ELSE parts[k]])

\* Array.prototype.slice(0, n)
slice(xs, n) == SubSeq(xs, 1, IF Len(xs) < n THEN Len(xs) ELSE n)

\* the number of letters of a text: (t.match(/[a-zA-Z]/g) || []).length
alphaChars(t) == Cardinality({i \in 1..Len(t) : isAlpha(t[i])})

\* String.prototype.lastIndexOf of a character, counted from 0; -1 when absent
lastIndexOf(t, c) ==
    IF \E i \in 1..Len(t) : t[i] = c
    THEN (CHOOSE i \in 1..Len(t) : t[i] = c /\ \A j \in (i + 1)..Len(t) : t[j] # c) - 1
    ELSE -1

\* the text ends with one of . ! ?  : /[.!?]$/
endsSentence(t) == t # <<>> /\ t[Len(t)] \in {46, 33, 63}

(***************************************************************************)
(* Regular expressions.  A pattern is a sequence of items: a character     *)
(* code (matched without regard to case, as under the i flag) or one of    *)
(* the items of re.  The matcher prefers the alternatives the JavaScript   *)
(* engine prefers (the longest run of a greedy item, the shortest of a     *)
(* lazy one), so the end it returns is the end of the match the engine     *)
(* finds.                                                                  *)
(***************************************************************************)
re == [ ws1 |-> -1,          \* \s+
        ws0 |-> -2,          \* \s*
        any |-> -3,          \* .*
        lazy |-> -4,         \* .*?
        nonSp1 |-> -5,       \* [^\s]+
        nonDotLazy |-> -6,   \* [^.]*?
        digit1 |-> -7,       \* \d+
        optS |-> -8,         \* s?
        dot |-> -9,          \* .
        alpha |-> -10,       \* [a-z] under the i flag
        alpha1 |-> -11,      \* [a-z]+ under the i flag
        eos |-> -12,         \* $ (without the m flag)
        dots0 |-> -13 ]      \* \.*

\* the pattern of a phrase whose words are separated by \s+
rx(s) ==
    LET Phrase(codes) ==
            [i \in 1..Len(codes) |-> IF codes[i] = 32 THEN re.ws1 ELSE lowerCode(codes[i])]
    IN  Phrase(Chars(s))

\* the pattern of a literal text
lit(s) == toLowerCase(Chars(s))

\* c belongs to the class a repeated item ranges over
inClass(item, c) ==
    CASE item \in {-1, -2} -> isSpace(c)                 \* \s+ \s*
      [] item \in {-3, -4, -9} -> c \notin {10, 13}      \* .* .*? .
      [] item = -5 -> ~isSpace(c)                        \* [^\s]+
      [] item = -6 -> c # 46                             \* [^.]*?
      [] item = -7 -> isDigit(c)                         \* \d+
      [] item = -8 -> c \in {83, 115}                    \* s?
      [] item \in {-10, -11} -> isAlpha(c)               \* [a-z] [a-z]+
      [] item = -13 -> c = 46                            \* \.*

\* the least member of a set of positions, 0 when it is empty
least(positions) ==
    IF positions = {} THEN 0 ELSE CHOOSE x \in positions : \A y \in positions : x <= y

\* how many characters from position i on belong to the item's class
runLen(item, t, i) ==
    least({j \in i..(Len(t) + 1) : j > Len(t) \/ ~inClass(item, t[j])}) - i

\* the first end of a list of ends that is one (is not 0), 0 when none is
firstEnd(ends) == IF \A c \in DOMAIN ends : ends[c] = 0 THEN 0
                  ELSE ends[least({c \in DOMAIN ends : ends[c] # 0})]

\* the last of the literal characters that start at pat[k]
literalLast(pat, k) ==
    least({j \in k..Len(pat) : j = Len(pat) \/ pat[j + 1] < 0})

\* the step over the literal characters pat[k..last], compared at once
literalStep(pat, k, last, t, i) ==
    IF /\ i + last - k <= Len(t)
       /\ \A m \in 0..(last - k) : lowerCode(t[i + m]) = pat[k + m]
    THEN << <<last + 1, i + last - k + 1>> >> ELSE <<>>

\* the steps over a repeated item that may take most characters: the runs
\* it may take in the order the engine tries them, the longest first for a
\* greedy item, the shortest first for a lazy one
repeatSteps(item, k, most, i) ==
    LET hi == IF item \in {-8, -9, -10} /\ most > 1 THEN 1 ELSE most
        lo == IF item \in {-1, -5, -7, -9, -10, -11} THEN 1 ELSE 0
    IN  [c \in 1..(hi - lo + 1) |->
            <<k + 1, IF item \in {-4, -6} THEN i + lo + c - 1 ELSE i + hi - c + 1>>]

\* the ways to match pat[k] at position i, in the order the engine tries
\* them: the item of the pattern to go on with and the position to go on at
reSteps(pat, k, t, i) ==
    IF pat[k] = -12 THEN (IF i > Len(t) THEN << <<k + 1, i>> >> ELSE <<>>)
    ELSE IF pat[k] >= 0 THEN literalStep(pat, k, literalLast(pat, k), t, i)
    ELSE repeatSteps(pat[k], k, runLen(pat[k], t, i), i)

\* where the match of pat[k..] that starts at position i ends (the position
\* after its last character), 0 when there is none
RECURSIVE reEnd(_, _, _, _)
RECURSIVE reTry(_, _, _)
reTry(pat, t, steps) ==
    firstEnd([c \in DOMAIN steps |-> reEnd(pat, steps[c][1], t, steps[c][2])])
reEnd(pat, k, t, i) ==
    IF k > Len(pat) THEN i ELSE reTry(pat, t, reSteps(pat, k, t, i))

\* where the first alternative that matches at position i ends, 0 when none does
reEndAny(pats, t, i) == firstEnd([q \in DOMAIN pats |-> reEnd(pats[q], 1, t, i)])

\* RegExp.prototype.test
test(pat, t) == \E i \in 1..(Len(t) + 1) : reEnd(pat, 1, t, i) # 0

\* some pattern of an alternation matches
testAny(pats, t) == \E q \in DOMAIN pats : test(pats[q], t)

\* the leftmost match that is not empty, given the ends of the matches that
\* start at each position (0 for none): <<start, end>>, <<0, 0>> when none
leftmost(ends) ==
    LET at(i) == <<i, IF i = 0 THEN 0 ELSE ends[i]>>
    IN  at(least({i \in DOMAIN ends : ends[i] \notin {0, i}}))

\* the leftmost match that is not empty, searching from position from on
nextMatch(pats, t, from) ==
    leftmost([i \in from..Len(t) |-> reEndAny(pats, t, i)])

\* String.prototype.match with the g flag: the matched texts, left to right
RECURSIVE matchAll(_, _, _)
RECURSIVE matchesFrom(_, _, _)
matchesFrom(pat, t, m) ==
    IF m[1] = 0 THEN <<>> ELSE <<SubSeq(t, m[1], m[2] - 1)>> \o matchAll(pat, t, m[2])
matchAll(pat, t, from) == matchesFrom(pat, t, nextMatch(<<pat>>, t, from))

\* String.prototype.replace with the g flag
RECURSIVE replaceAll(_, _, _, _)
RECURSIVE replacedFrom(_, _, _, _, _)
replacedFrom(pat, t, rep, from, m) ==
    IF m[1] = 0 THEN SubSeq(t, from, Len(t))
    ELSE SubSeq(t, from, m[1] - 1) \o rep \o replaceAll(pat, t, rep, m[2])
replaceAll(pat, t, rep, from) ==
    replacedFrom(pat, t, rep, from, nextMatch(<<pat>>, t, from))

\* String.prototype.replace without the g flag: the leftmost match only
replacedFirst(t, rep, m) ==
    IF m[1] = 0 THEN t ELSE SubSeq(t, 1, m[1] - 1) \o rep \o SubSeq(t, m[2], Len(t))
replaceFirst(pat, t, rep) == replacedFirst(t, rep, nextMatch(<<pat>>, t, 1))

\* String.prototype.split on an alternation: the pieces between the matches
RECURSIVE split(_, _, _)
RECURSIVE splitFrom(_, _, _, _)
splitFrom(pats, t, from, m) ==
    IF m[1] = 0 THEN <<SubSeq(t, from, Len(t))>>
    ELSE <<SubSeq(t, from, m[1] - 1)>> \o split(pats, t, m[2])
split(pats, t, from) == splitFrom(pats, t, from, nextMatch(pats, t, from))

\* replace(/\s+/g, ' '): a run of white space becomes one blank
collapseSpace(t) ==
    flat([i \in 1..Len(t) |->
            IF ~isSpace(t[i]) THEN <<t[i]>>
            ELSE IF i > 1 /\ isSpace(t[i - 1]) THEN <<>> ELSE <<32>>])

\* replace(/([a-z])([A-Z])/g, '$1 $2'): a blank between a small and a capital letter
splitCamel(t) ==
    flat([i \in 1..Len(t) |->
            IF /\ i < Len(t)
               /\ t[i] >= 97 /\ t[i] <= 122
               /\ t[i + 1] >= 65 /\ t[i + 1] <= 90
            THEN <<t[i], 32>> ELSE <<t[i]>>])

(***************************************************************************)
(* The status parser (status-parser.ts).                                   *)
(***************************************************************************)
\* some keyword of the list occurs in the text
includesAny(t, keywords) == \E k \in keywords : includes(t, k)

\* inferStatusFromText with the closed keywords tested before the restricted ones
inferStatusFromTextClosedFirst(rawText) ==
    LET text == toLowerCase(rawText)
    IN  IF \/ includesAny(text, {"road closed", "fully closed", "temporarily closed",
                                 "permanently closed", "full closure"})
           \/ /\ includes(text, "closed")
              /\ ~includes(text, "lane closure")
              /\ ~includes(text, "construction")
              /\ ~includes(text, "restricted")
        THEN "closed"
        ELSE IF includesAny(text, {"restricted", "limited access", "permit required",
                                   "special restrictions", "lane closure", "construction",
                                   "accident", "incident", "delay"})
        THEN "restricted"
        ELSE IF includesAny(text, {"chains required", "chains are required",
                                   "chain control", "snow chains"})
        THEN "chains_required"
        ELSE IF includesAny(text, {"open", "accessible", "available"})
        THEN "open"
        ELSE "unknown"

\* inferStatusFromText: the status code of a text, by keyword precedence
inferStatusFromText(rawText) ==
    LET text == toLowerCase(rawText)
    IN  IF includesAny(text, {"restricted", "limited access", "permit required",
                              "special restrictions", "lane closure", "construction",
                              "accident", "incident", "delay"})
        THEN "restricted"
        ELSE IF includesAny(text, {"chains required", "chains are required",
                                   "chain control", "snow chains"})
        THEN "chains_required"
        ELSE IF \/ includesAny(text, {"road closed", "fully closed", "temporarily closed",
                                      "permanently closed", "full closure"})
                \/ /\ includes(text, "closed")
                   /\ ~includes(text, "lane closure")
                   /\ ~includes(text, "construction")
                   /\ ~includes(text, "restricted")
        THEN "closed"
        ELSE IF includesAny(text, {"open", "accessible", "available"})
        THEN "open"
        ELSE "unknown"

\* the text holds something the markup rules of cleanText act on: an image or
\* a link, a header, emphasis, code, a tag, or a list marker at the start of a
\* line
hasMarkup(t) ==
    \/ \E i \in 1..Len(t) : t[i] \in {35, 42, 95, 96, 60}
    \/ includes(t, "![") \/ includes(t, "](")
    \/ \E i \in 1..Len(t) :
          /\ i = 1 \/ t[i - 1] \in {10, 13}
          /\ reEndAny(<< <<re.ws0, 45, re.ws1>>, <<re.ws0, 43, re.ws1>>,
                         <<re.ws0, re.digit1, 46, re.ws1>> >>, t, i) # 0

\* replace(/^[^\w\s]+$/gm, ' '): a line of punctuation alone becomes a blank
blankPunctuationLines(t) ==
    LET breaks == SelectSeq([i \in 1..Len(t) |-> i], LAMBDA i : t[i] \in {10, 13})
        Line(k) == SubSeq(t, IF k = 1 THEN 1 ELSE breaks[k - 1] + 1,
                             IF k <= Len(breaks) THEN breaks[k] - 1 ELSE Len(t))
        Blanked(line) == IF line # <<>> /\ \A k \in 1..Len(line) :
                                              ~isWord(line[k]) /\ ~isSpace(line[k])
                         THEN <<32>> ELSE line
    IN  flat([k \in 1..(Len(breaks) + 1) |->
                Blanked(Line(k)) \o (IF k <= Len(breaks) THEN <<t[breaks[k]]>> ELSE <<>>)])

\* the boilerplate patterns cleanText removes, in the order of the source
boilerplatePatterns ==
    << lit("Skip to main content"), lit("Skip to content"),
       lit("Official websites use .gov"), lit("Secure .gov websites use HTTPS"),
       lit("A .gov website belongs to an official government organization in the United States"),
       lit("A lock") \o <<re.any>> \o lit("means you've safely connected"),
       lit("A lock") \o <<re.any>> \o lit("or https") \o <<re.any>>
           \o lit("means you've safely connected"),
       lit("LockLocked padlock"),
       lit("Lock") \o <<re.any>> \o lit("padlock") \o <<re.any>> \o lit("means"),
       lit("You can also call") \o <<re.any>> \o lit("for current highway conditions"),
       lit("You can also call 1-800-427-7623"),
       lit("Image of") \o <<re.lazy, 46>>, lit("Icon") \o <<re.lazy, 46>>,
       lit("Dot gov"), lit("Https"), lit("means you've safely connected"),
       lit("safely connected to the"),
       lit("belongs to an official government organization in the United States"),
       lit("Share sensitive information only on official, secure websites"),
       lit("Share sensitive information only on official"),
       lit("No Featured Alerts at this Time"),
       lit("Creative Conservation for Endangered Frogs"),
       lit("View All Features"), lit("USDA in the News") >>

\* the patterns lo..hi are replaced by rep one after the other
RECURSIVE replaceEach(_, _, _, _, _)
replaceEach(t, pats, rep, lo, hi) ==
    IF t = <<>> \/ lo > hi THEN t
    ELSE IF lo = hi THEN replaceAll(pats[lo], t, rep, 1)
    ELSE replaceEach(replaceEach(t, pats, rep, lo, (lo + hi) \div 2),
                     pats, rep, (lo + hi) \div 2 + 1, hi)

\* cleanText, on a text without markup: the steps that strip markup leave such
\* a text as it is; links to sites are blanked, then the boilerplate, then
\* the lines of punctuation alone; white space is collapsed and trimmed
cleanText(text) ==
    trim(collapseSpace(blankPunctuationLines(
        replaceEach(
            replaceAll(lit("www.") \o <<re.nonSp1>>,
                replaceAll(lit("http") \o <<re.optS>> \o lit("://") \o <<re.nonSp1>>,
                           CHOOSE t \in {text} : ~hasMarkup(t), <<32>>, 1),
                <<32>>, 1),
            boilerplatePatterns, <<32>>, 1, Len(boilerplatePatterns)))))

\* the boilerplate phrases of extractContentBlocks; each is compiled with
\* new RegExp(phrase.replace(/\*/g, '.*'), 'i'), so a dot stands for any
\* character and ".*" becomes "..*"
strictBoilerplateWords ==
    << lit("skip to main content"),
       lit("official websites use ") \o <<re.dot>> \o lit("gov"),
       lit("secure ") \o <<re.dot>> \o lit("gov websites"),
       lit("a ") \o <<re.dot>> \o lit("gov website belongs to"),
       lit("lock") \o <<re.dot, re.any>> \o lit("padlock") \o <<re.dot, re.any>> \o lit("means"),
       lit("you can also call 1-800"), lit("image of"), lit("icon"), lit("dot gov"),
       lit("https") \o <<re.dot, re.any>> \o lit("means") >>

\* /[A-Z][a-z]+\s+National\s+Forest/i
forestNamePattern == <<re.alpha, re.alpha1, re.ws1>> \o rx("national forest")

\* extractContentBlocks, on a text without header lines: the sentences of the
\* text that are long enough, are not boilerplate, are mostly letters and are
\* not a list of forest names
extractContentBlocks(text) ==
    LET Keep(block) ==
            /\ Len(block) >= 20
            /\ ~(testAny(strictBoilerplateWords, block) /\ Len(block) < 100)
            /\ 10 * alphaChars(block) >= 3 * Len(block)
            /\ ~ /\ Len(matchAll(forestNamePattern, block, 1)) > 2
                 /\ Len(block) < 500
                 /\ ~testAny(<<lit("fire"), lit("alert"), lit("danger"),
                               lit("restriction"), lit("closed"), lit("open")>>, block)
        Blocks(pieces) == SelectSeq([k \in 1..Len(pieces) |-> trim(pieces[k])], Keep)
    IN  IF Len(text) < 20 THEN <<>>
        ELSE Blocks(split(<< <<46, re.ws1>>, <<33, re.ws1>>, <<63, re.ws1>>,
                             <<10, re.ws0, 10>> >>,
                          CHOOSE t \in {text} : \A i \in 1..Len(t) : t[i] # 35, 1))

\* filter((ind, idx, arr) => arr.indexOf(ind) === idx): first occurrences only
dedupe(xs) ==
    LET first == SelectSeq([i \in 1..Len(xs) |-> i],
                           LAMBDA i : \A j \in 1..(i - 1) : xs[j] # xs[i])
    IN  [k \in 1..Len(first) |-> xs[first[k]]]

\* generateDetailedSummary, the pre-pass on road condition indicators: the
\* summary built from the indicators found in the raw text, <<>> when none
quickMapSummary(rawText) ==
    LET quickMapPatterns ==
            << rx("lane closure") \o <<re.optS>>, rx("full closure"), rx("chain control"),
               rx("chains required"), rx("road closed"), lit("construction"),
               lit("accident"), lit("incident"), lit("delay"), lit("restricted") >>
        Strip(ind) == trim(SelectSeq(ind, LAMBDA c : c \notin {33, 42}))
        \* the indicators stripped, the empty ones dropped, each once
        Clean(quickMapIndicators) ==
            dedupe(SelectSeq([k \in 1..Len(quickMapIndicators) |->
                                 Strip(quickMapIndicators[k])],
                             LAMBDA ind : Len(ind) > 0))
        Matching(pats, cleanIndicators) ==
            SelectSeq(cleanIndicators, LAMBDA ind : testAny(pats, ind))
        List(prefix, xs) ==
            IF Len(xs) > 0 THEN Chars(prefix) \o join(xs, Chars(", ")) \o Chars(". ")
            ELSE <<>>
        Summary(cleanIndicators, categorized) ==
            IF Len(cleanIndicators) > 0
            THEN (IF categorized # <<>> THEN categorized
                  ELSE List("Road conditions detected: ", cleanIndicators))
                 \o Chars("Check QuickMap for specific locations and details.")
            ELSE <<>>
        \* closures, restrictions and delays, each with its prefix
        Categorized(cleanIndicators) ==
            Summary(cleanIndicators,
                List("Road closures detected: ",
                     Matching(<<lit("closure"), lit("closed")>>, cleanIndicators))
                \o List("Road restrictions: ",
                        Matching(<<lit("chain"), lit("restricted")>>, cleanIndicators))
                \o List("Road conditions may cause delays: ",
                        Matching(<<lit("construction"), lit("accident"),
                                   lit("incident"), lit("delay")>>, cleanIndicators)))
    IN  Categorized(Clean(flat([q \in 1..Len(quickMapPatterns) |->
                                   matchAll(quickMapPatterns[q], rawText, 1)])))

\* generateDetailedSummary, the answer for a text that cannot be parsed: the
\* road conditions its raw text names, <<>> when it names none
unparsedSummary(rawText, hasRoadKeywords) ==
    LET Cond(pats, name) == IF testAny(pats, rawText) THEN <<Chars(name)>> ELSE <<>>
        Summary(conditions) ==
            IF hasRoadKeywords /\ Len(conditions) > 0
            THEN Chars("Road conditions detected: ") \o join(conditions, Chars(", "))
                 \o Chars(". Check QuickMap for specific locations and details.")
            ELSE <<>>
    IN  Summary(Cond(<<rx("lane closure")>>, "lane closures")
                \o Cond(<<rx("full closure")>>, "full closures")
                \o Cond(<<rx("chain control"), rx("chains required")>>, "chain requirements")
                \o Cond(<<lit("construction")>>, "construction")
                \o Cond(<<lit("accident"), lit("incident")>>, "incidents")
                \o Cond(<<rx("road closed")>>, "road closures"))

\* the truncation generateDetailedSummary applies to its sentence summaries:
\* cut at maxLength, then back to the last full stop if that is past 60%
truncateAtPeriod(t, maxLength, trimmed) ==
    IF Len(t) > maxLength
    THEN LET truncated == SubSeq(t, 1, maxLength)
             lastPeriod == lastIndexOf(truncated, 46)
         IN  IF 10 * lastPeriod > 6 * maxLength THEN SubSeq(truncated, 1, lastPeriod + 1)
             ELSE (IF trimmed THEN trim(truncated) ELSE truncated) \o Chars("...")
    ELSE t

\* generateDetailedSummary, when no block was found: up to three sentences of
\* the cleaned text, <<>> when there is none
sentenceFallback(cleanedText, maxLength) ==
    LET Keep(x) ==
            /\ Len(x) >= 15 /\ Len(x) <= 500
            /\ 10 * alphaChars(x) >= 2 * Len(x)
            /\ ~includesAny(toLowerCase(x), {"skip to main content", "official websites use",
                                             "secure .gov websites"})
        Trimmed(pieces) == [k \in 1..Len(pieces) |-> trim(pieces[k])]
        Ended(joined) == IF endsSentence(joined) THEN joined ELSE joined \o Chars(".")
        Summary(sentences) ==
            IF Len(sentences) > 0
            THEN truncateAtPeriod(Ended(trim(join(sentences, Chars(". ")))), maxLength, FALSE)
            ELSE <<>>
    IN  Summary(slice(SelectSeq(
            Trimmed(split(<< <<46, re.ws1>>, <<33, re.ws1>>, <<63, re.ws1>> >>,
                          cleanedText, 1)),
            Keep), 3))

\* the score generateDetailedSummary gives a block
scoreBlock(block) ==
    LET Has(k) == includes(toLowerCase(block), k)
        Count(keywords) == Cardinality({k \in keywords : Has(k)})
        highPriorityKeywords ==
            {"fire danger", "fire restriction", "fire status", "alert", "warning", "closed",
             "open", "restricted", "closure", "lane closure", "full closure", "chain control",
             "chains required", "traffic", "construction", "accident"}
        mediumPriorityKeywords ==
            {"chains", "permit", "access", "notice", "condition", "status", "advisory",
             "update", "current", "required", "prohibited", "road conditions",
             "highway conditions", "travel alert", "incident", "delay"}
        lowPriorityKeywords ==
            {"road", "trail", "campground", "snow", "weather", "information", "highway",
             "route", "danger", "restriction", "high", "moderate", "low"}
        featuredArticleKeywords ==
            {"creative conservation", "featured article", "usda in the news",
             "endangered species", "zoos", "coolers", "invests", "million",
             "conserving endangered", "sierra nevada yellow-legged",
             "requires a bit of creativity", "usda invests just over", "usda invests"}
        If(cond, points) == IF cond THEN points ELSE 0
    IN  If(includesAny(toLowerCase(block), featuredArticleKeywords), -100)
        + 10 * Count(highPriorityKeywords)
        + 5 * Count(mediumPriorityKeywords)
        + Count(lowPriorityKeywords)
        + If(reEnd(forestNamePattern, 1, block, 1) # 0 /\ Len(block) < 100, -5)
        + If(Has("know before you go") /\ Has("national weather service")
               /\ Has("caltrans social media"), -50)
        + If(Has("travel alert") /\ Has("know before you go"), -30)
        + If(Has("winter driving tips"), -20)
        + If(Has("traffic scale") \/ Has("traffic cone") \/ Has("pending lcs"), -15)
        + If(Has("lane closure") \/ Has("full closure") \/ Has("chain control"), 15)
        + If(Has("traffic") /\ (Has("slow") \/ Has("fast") \/ Has("delay")), 10)
        + If(Has("construction") \/ Has("accident") \/ Has("incident"), 12)

\* Array.prototype.sort((a, b) => b.score - a.score), which is stable: the
\* blocks by falling score, equal scores in their order
sortByScore(blocks) ==
    LET Sorted(score) ==
            LET Before(j, i) == score[j] > score[i] \/ (score[j] = score[i] /\ j < i)
                Rank(i) == 1 + Cardinality({j \in 1..Len(blocks) : Before(j, i)})
            IN  [r \in 1..Len(blocks) |-> blocks[CHOOSE i \in 1..Len(blocks) : Rank(i) = r]]
    IN  Sorted([i \in 1..Len(blocks) |-> scoreBlock(blocks[i])])

\* generateDetailedSummary, the blocks it uses: the three best scored ones,
\* or, when none scores above zero, the first three that are not navigation
blocksToUse(contentBlocks) ==
    LET strictBoilerplate ==
            {"skip to main content", "official websites use", "secure .gov websites",
             "click here", "learn more", "view all", "enter highway number",
             "know before you go", "national weather service", "caltrans social media",
             "road information", "winter driving tips", "travel alert", "traffic scale",
             "traffic cone", "pending lcs", "full closure sign"}
        Content(block) ==
            /\ ~includesAny(toLowerCase(block), strictBoilerplate)
            /\ ~(reEnd(forestNamePattern, 1, trim(block), 1) # 0 /\ Len(block) < 150)
            /\ ~(Len(matchAll(rx("national forest"), block, 1)) > 2 /\ Len(block) < 300)
        Use(relevantBlocks) ==
            IF Len(relevantBlocks) > 0 THEN slice(relevantBlocks, 3)
            ELSE slice(SelectSeq(contentBlocks, Content), 3)
    IN  Use(sortByScore(SelectSeq(contentBlocks, LAMBDA block : scoreBlock(block) > 0)))

\* /\s*404\s+Page\s+Not\s+Fou.*$/i
notFoundTail == <<re.ws0>> \o rx("404 page not fou") \o <<re.any, re.eos>>

\* generateDetailedSummary, the summary put together from the blocks: each
\* block tidied into a sentence, the sentences joined, boilerplate removed
composeSummary(blocks) ==
    LET Usable(block) ==
            /\ ~includesAny(toLowerCase(block), {"click here", "learn more"})
            /\ 10 * alphaChars(block) >= 3 * Len(block)
            /\ Len(trim(block)) >= 15
            /\ ~test(rx("404 page not fou"), block)
        Ended(spaced) ==
            IF Len(spaced) > 0 /\ ~endsSentence(spaced) THEN spaced \o Chars(".") ELSE spaced
        Sentence(block) ==
            Ended(splitCamel(replaceFirst(notFoundTail,
                      replaceFirst(<<46, 46, re.dots0, re.eos>>, trim(block), <<>>), <<>>)))
        removals ==
            << rx("travel alert:") \o <<re.ws0>> \o rx("know before you go")
                   \o <<re.nonDotLazy>> \o rx("road information") \o <<re.nonDotLazy>>,
               rx("national weather service") \o <<re.ws0, 45, re.ws0>>
                   \o rx("caltrans social media") \o <<re.ws0, 45, re.ws0>>
                   \o rx("road information"),
               lit("1-800-427-7623"), rx("winter driving tips"), rx("quickmap mobile"),
               rx("quickmap faq"),
               rx("caltrans quickmap") \o <<re.nonDotLazy>> \o rx("traveler information map") >>
        \* the steps of the source from the last to the first, each on the
        \* result of the step before it; no sentence gives the empty summary
        \* s5: a blank before a mark of punctuation goes
        Tidied(s5) ==
            IF s5 = <<>> THEN <<>>
            ELSE trim(replaceAll(<<re.ws1, 58>>, replaceAll(<<re.ws1, 59>>,
                     replaceAll(<<re.ws1, 44>>, replaceAll(<<re.ws1, 46>>, s5, <<46>>, 1),
                                <<44>>, 1), <<59>>, 1), <<58>>, 1))
        \* s4: punctuation at the start goes
        After(s4, leading) == IF leading # 0 THEN SubSeq(s4, leading, Len(s4)) ELSE s4
        Unled(s4) ==
            IF s4 = <<>> THEN <<>>
            ELSE Tidied(After(s4, reEndAny(<< <<re.ws0, 46, re.ws0>>, <<re.ws0, 44, re.ws0>>,
                                              <<re.ws0, 59, re.ws0>>, <<re.ws0, 58, re.ws0>> >>,
                                           s4, 1)))
        \* s2, s3: two and three full stops with blanks between them are closed up
        Dotted3(s3) ==
            IF s3 = <<>> THEN <<>>
            ELSE Unled(replaceAll(<<46, re.ws0, 46, re.ws0, 46>>, s3, <<46, 46, 46>>, 1))
        Dotted2(s2) ==
            IF s2 = <<>> THEN <<>> ELSE Dotted3(replaceAll(<<46, re.ws0, 46>>, s2, <<46>>, 1))
        \* s1: white space is collapsed
        Collapsed(s1) == IF s1 = <<>> THEN <<>> ELSE Dotted2(collapseSpace(s1))
        \* the sentences are joined and the removals made
        Joined(sentences) ==
            IF sentences = <<>> THEN <<>>
            ELSE Collapsed(replaceEach(trim(join(sentences, <<32>>)), removals, <<>>,
                                       1, Len(removals)))
        \* the usable ones of the first three blocks become sentences
        Sentences(usable) ==
            IF usable = <<>> THEN <<>>
            ELSE Joined(SelectSeq([k \in 1..Len(usable) |-> Sentence(usable[k])],
                                  LAMBDA x : Len(x) > 0))
    IN  Sentences(SelectSeq(slice(blocks, 3), Usable))

\* replace(/::+/g, ':'): a run of colons becomes one colon
collapseColons(t) ==
    flat([i \in 1..Len(t) |-> IF t[i] = 58 /\ i > 1 /\ t[i - 1] = 58 THEN <<>> ELSE <<t[i]>>])

\* replace(/([A-Z][a-z]+)([A-Z][a-z]+)/g, '$1 $2'): a blank between two
\* capitalised words that are written together
RECURSIVE splitNames(_, _)
splitNames(t, from) ==
    LET Small(c) == c >= 97 /\ c <= 122
        Capital(c) == c >= 65 /\ c <= 90
        \* a capital, small letters, a capital and a small letter, from i on;
        \* j is where the second capital stands
        Joined(i, j) ==
            /\ Capital(t[i]) /\ j > i + 1 /\ j < Len(t)
            /\ \A m \in (i + 1)..(j - 1) : Small(t[m])
            /\ Capital(t[j]) /\ Small(t[j + 1])
        SecondCapital(i) == least({j \in (i + 2)..(Len(t) - 1) : Joined(i, j)})
        \* where the small letters after the second capital end
        WordEnd(j) == least({x \in (j + 2)..(Len(t) + 1) : x > Len(t) \/ ~Small(t[x])})
        Spaced(j, e) ==
            SubSeq(t, from, j - 1) \o <<32>> \o SubSeq(t, j, e - 1) \o splitNames(t, e)
        SpacedAt(j) == Spaced(j, WordEnd(j))
        \* i is where the leftmost pair of such words starts, 0 when there is none
        At(i) == IF i = 0 THEN SubSeq(t, from, Len(t)) ELSE SpacedAt(SecondCapital(i))
    IN  At(least({i \in from..Len(t) : SecondCapital(i) # 0}))

\* generateDetailedSummary, from the composed summary to the result: the
\* answer for a navigation page, the fallback for a short summary, the last
\* repairs and the truncation to maxLength
finishSummary(rawText, cleanedText, composed, maxLength) ==
    LET navigationPhrases ==
            {"enter highway number", "check current highway conditions",
             "know before you go", "you can also call", "road information",
             "national weather service", "caltrans social media",
             "quickmap real-time travel information"}
        navigationCount ==
            Cardinality({ph \in navigationPhrases : includes(toLowerCase(composed), ph)})
        hasStatusInfo ==
            testAny(<< lit("closed"), lit("open"), lit("restricted"), lit("chains required"),
                       lit("snow"), lit("ice"), lit("flood"), lit("construction"),
                       lit("highway") \o <<re.ws1, re.digit1>>, lit("route") \o <<re.ws1, re.digit1>>,
                       lit("road") \o <<re.ws1, re.digit1>>,
                       lit("condition"), lit("status"), lit("advisory"), lit("warning") >>,
                    rawText)
        Keep(x) ==
            /\ Len(trim(x)) >= 20 /\ Len(trim(x)) <= 300
            /\ ~includesAny(toLowerCase(trim(x)),
                            {"skip", "main content", "official website", "secure", "lock",
                             "https", "dot gov", "click here", "learn more"})
        Trimmed(pieces) ==
            SelectSeq([k \in 1..Len(pieces) |-> trim(pieces[k])], LAMBDA x : Len(x) > 0)
        Ended(joined) == IF endsSentence(joined) THEN joined ELSE joined \o Chars(".")
        \* the composed summary, or the first sentences of the cleaned text when
        \* it is too short
        Summary(sentences) ==
            IF Len(composed) < 20 /\ Len(sentences) > 0
            THEN Ended(trim(join(sentences, Chars(". "))))
            ELSE composed
        \* the truncation: at the end of the last sentence if that is past 60% of
        \* maxLength, else at the last blank if that is past 80%, else at maxLength
        Cut(truncated, lastSentenceEnd, lastSpace) ==
            IF 10 * lastSentenceEnd > 6 * maxLength
            THEN SubSeq(truncated, 1, lastSentenceEnd + 1)
            ELSE IF 10 * lastSpace > 8 * maxLength
            THEN SubSeq(truncated, 1, lastSpace) \o Chars("...")
            ELSE trim(truncated) \o Chars("...")
        Greatest(ends) == CHOOSE e \in ends : \A o \in ends : o <= e
        CutAt(truncated) ==
            Cut(truncated,
                Greatest({lastIndexOf(truncated, 46), lastIndexOf(truncated, 33),
                          lastIndexOf(truncated, 63)}),
                lastIndexOf(truncated, 32))
        Truncated(f4) == IF Len(f4) > maxLength THEN CutAt(SubSeq(f4, 1, maxLength)) ELSE f4
        \* the last repairs, from the last to the first: the tail of a not-found
        \* page goes, words written together are parted, white space collapsed
        Parted(f3) == IF f3 = <<>> THEN <<>> ELSE Truncated(trim(collapseSpace(f3)))
        NoTail2(f2) ==
            IF f2 = <<>> THEN <<>> ELSE Parted(splitNames(collapseColons(splitCamel(f2)), 1))
        NoTail1(f1) ==
            IF f1 = <<>> THEN <<>>
            ELSE NoTail2(replaceFirst(<<re.ws0>> \o rx("page not fou") \o <<re.any, re.eos>>,
                                      f1, <<>>))
        Repaired(summary) ==
            IF Len(summary) < 20
            THEN Chars("Content available but could not be parsed. Please check source for details.")
            ELSE NoTail1(replaceFirst(notFoundTail, summary, <<>>))
    IN  IF navigationCount >= 2 /\ Len(composed) < 200 /\ ~hasStatusInfo
        THEN Chars("This is a general road information page. For current road conditions in this area, visit QuickMap (quickmap.dot.ca.gov) or call 1-800-427-7623. You can also check the source link for specific highway conditions.")
        ELSE Repaired(Summary(Trimmed(slice(
                 SelectSeq(split(<< <<46, re.ws1>>, <<33, re.ws1>>, <<63, re.ws1>> >>,
                                 cleanedText, 1), Keep), 2))))

\* the featured-content alternation generateDetailedSummary tests the cleaned
\* and the raw text against
featuredContentPattern ==
    << rx("creative conservation"), rx("featured article"), rx("usda in the news"),
       rx("view all features"), rx("endangered species"), lit("zoos"), lit("coolers"),
       lit("invests") \o <<re.any>> \o lit("million"), rx("usda invests"),
       rx("conserving endangered"), rx("sierra nevada yellow-legged"),
       rx("requires a bit of creativity"), rx("usda invests just over"), rx("top tip"),
       rx("release date"), rx("labor day"), rx("help prevent"), lit("human-caused"),
       rx("wildfire prevention") >>

\* generateDetailedSummary, on a raw text without header lines
generateDetailedSummary(rawText, maxLength) ==
    LET couldNotBeParsed ==
            Chars("Content available but could not be parsed. Please check source for details.")
        roadConditionKeywords ==
            << rx("lane closure"), rx("full closure"), rx("chain control"),
               rx("chains required"), lit("construction"), lit("accident"), lit("incident"),
               lit("delay"), lit("traffic"), rx("road closed"), lit("restricted"),
               lit("open"), lit("closed") >>
        IsMostlyFeatured(raw, cleanedText) ==
            \/ testAny(featuredContentPattern, cleanedText)
            \/ testAny(featuredContentPattern, raw)
            \/ testAny(<<rx("conserving endangered species"),
                         rx("sierra nevada yellow-legged frog"),
                         rx("usda invests just over")>>, cleanedText)
        HasNoAlertsMessage(raw, cleanedText) ==
            \/ includesAny(toLowerCase(cleanedText),
                           {"no featured alerts", "no active alerts", "no current alerts"})
            \/ includesAny(toLowerCase(raw),
                           {"no featured alerts", "no featured alerts at this time"})
        HasRealAlerts(cleanedText, isMostlyFeatured) ==
            /\ testAny(<<rx("fire danger status"), rx("fire restriction"), rx("area closed"),
                         rx("trail closed"), rx("road closed"), lit("closure"),
                         lit("restricted"), lit("warning"), lit("advisory"),
                         lit("evacuation")>>, cleanedText)
            /\ ~testAny(<<rx("no featured alerts"), rx("no active alerts"),
                          rx("no current alerts")>>, cleanedText)
            /\ ~isMostlyFeatured
        IsErrorPage(cleanedText) ==
            testAny(<<rx("404 page not found"), rx("page not found"), rx("404 error"),
                      rx("the page you are looking for"), rx("could not be found")>>,
                    cleanedText)
        Unparsed(raw, cleanedText) ==
            unparsedSummary(raw, \/ testAny(roadConditionKeywords, raw)
                                 \/ testAny(roadConditionKeywords, cleanedText))
        Or(summary, other) == IF summary # <<>> THEN summary ELSE other
        \* the summary of the content blocks, or what stands for it when the
        \* text has none
        OfBlocks(raw, cleanedText, contentBlocks) ==
            IF Len(contentBlocks) = 0
            THEN Or(Unparsed(raw, cleanedText),
                    Or(sentenceFallback(cleanedText, maxLength), couldNotBeParsed))
            ELSE finishSummary(raw, cleanedText, composeSummary(blocksToUse(contentBlocks)),
                               maxLength)
        Decided(raw, cleanedText, isMostlyFeatured) ==
            IF /\ HasNoAlertsMessage(raw, cleanedText) \/ isMostlyFeatured
               /\ ~HasRealAlerts(cleanedText, isMostlyFeatured)
               /\ isMostlyFeatured
            THEN Chars("No active alerts or restrictions at this time.")
            ELSE IF IsErrorPage(cleanedText) /\ Len(cleanedText) < 200
            THEN Chars("Source page not found (404). The URL may have changed or the page may be temporarily unavailable.")
            ELSE IF Len(cleanedText) < 20
            THEN Or(Unparsed(raw, cleanedText), couldNotBeParsed)
            ELSE OfBlocks(raw, cleanedText, extractContentBlocks(cleanedText))
        Cleaned(raw, cleanedText) ==
            Decided(raw, cleanedText, IsMostlyFeatured(raw, cleanedText))
        Main(raw) == Cleaned(raw, cleanText(raw))
        PrePass(quickMap) ==
            IF quickMap # <<>> THEN quickMap
            ELSE Main(CHOOSE t \in {rawText} : \A i \in 1..Len(t) : t[i] # 35)
    IN  IF trim(rawText) = <<>> THEN Chars("No content available.")
        ELSE PrePass(quickMapSummary(rawText))

(***************************************************************************)
(* The upstream clients (firecrawl-client.ts, caltrans-api.ts).            *)
(***************************************************************************)
\* a number in a template literal: the decimal digits of an integer
RECURSIVE numberToString(_)
numberToString(n) ==
    IF n < 0 THEN <<45>> \o numberToString(-n)
    ELSE IF n < 10 THEN <<48 + n>>
    ELSE numberToString(n \div 10) \o <<48 + (n % 10)>>

\* the pages the scraping service returns as markdown
Pages ==
    { Chars("The trail is open and accessible to all hikers"),
      Chars("Road closed due to washout"),
      Chars("Enter highway number or visit Road Information pages for the area"),
      Chars("404 page not found") }

\* what the scraping service does with one request: it answers later than the
\* caller's timeout, it fails, or it answers with a result
ScrapeAnswers ==
    LET Answer(kind, statusCode, markdown) ==
            [kind |-> kind, message |-> Chars("fetch failed"), statusCode |-> statusCode,
             markdown |-> markdown, html |-> <<>>, content |-> <<>>]
    IN  {Answer("late", 0, <<>>), Answer("error", 0, <<>>), Answer("result", 404, <<>>),
         Answer("result", 410, <<>>)}
        \cup {Answer("result", 200, page) : page \in Pages}

\* scrapeUrl: the raw text of the page, or the error it throws
scrapeUrl(firecrawl, url, timeoutMs, answer) ==
    LET Throw(message) == [threw |-> TRUE, message |-> message, rawText |-> <<>>]
        rawText == IF answer.markdown # <<>> THEN answer.markdown
                   ELSE IF answer.html # <<>> THEN answer.html
                   ELSE answer.content
        lowerText == toLowerCase(rawText)
    IN  IF ~firecrawl THEN Throw(Chars("Firecrawl API key not configured"))
        ELSE IF answer.kind = "late"
        THEN Throw(Chars("Firecrawl request timeout after ") \o numberToString(timeoutMs)
                   \o Chars("ms"))
        ELSE IF answer.kind = "error" THEN Throw(answer.message)
        ELSE IF answer.statusCode \in {404, 410}
        THEN Throw(Chars("Source URL returned ") \o numberToString(answer.statusCode)
                   \o Chars(": ") \o url)
        ELSE IF /\ includesAny(lowerText, {"404", "page not found", "not found"})
                /\ Len(rawText) < 500
        THEN Throw(Chars("Source URL appears to be a 404 page: ") \o url)
        ELSE [threw |-> FALSE, message |-> <<>>, rawText |-> rawText]

\* the values of the API's JSON and of a closure's fields: a string, a
\* number, or none (undefined); all of one shape
jsString(s) == [t |-> "string", s |-> s, n |-> 0]
jsNumber(n) == [t |-> "number", s |-> <<>>, n |-> n]
undefined == [t |-> "undefined", s |-> <<>>, n |-> 0]

\* a || b
or(a, b) ==
    IF (a.t = "string" /\ a.s # <<>>) \/ (a.t = "number" /\ a.n # 0) THEN a ELSE b

\* a value in a string concatenation or in Array.prototype.join
toText(v) == IF v.t = "string" THEN v.s
             ELSE IF v.t = "number" THEN numberToString(v.n) ELSE <<>>

\* what the two endpoints of the lane closure API answer to one call, in the
\* order they are tried: the request fails, or a response arrives, ok or not,
\* with its features
ApiAnswers ==
    LET Feature(route, description, closure_type) ==
            [properties |-> [route |-> jsString(Chars(route)), direction |-> undefined,
                             location |-> undefined,
                             description |-> jsString(Chars(description)),
                             start_date |-> undefined, end_date |-> undefined,
                             closure_type |-> closure_type],
             coordinates |-> <<>>]
        lane == Feature("SR-2", "Lane closure for paving", jsString(Chars("lane")))
        full == Feature("SR-39", "Road closed at the gate", jsString(Chars("full")))
        odd == Feature("SR-2", "Paving", jsNumber(5))
        Fails == [kind |-> "error", ok |-> FALSE, features |-> <<>>]
        NotOk == [kind |-> "response", ok |-> FALSE, features |-> <<>>]
        Ok(features) == [kind |-> "response", ok |-> TRUE, features |-> features]
    IN  { <<Fails, Fails>>, <<NotOk, NotOk>>, <<Fails, NotOk>>, <<Ok(<<>>), Fails>>,
          <<NotOk, Ok(<<lane>>)>>, <<Ok(<<full, lane>>), Fails>>, <<Ok(<<odd>>), Fails>> }

\* every endpoint errors or answers non-OK
apiFails(answers) ==
    \A k \in DOMAIN answers : ~(answers[k].kind = "response" /\ answers[k].ok)

\* fetchLaneClosuresByBoundingBox: the closures of the first endpoint that
\* answers ok, none when no endpoint does.  The bounding box only shapes the
\* request, and the answers here do not depend on the request.
fetchLaneClosuresByBoundingBox(lat, lng, radiusKm, answers) ==
    LET good == {k \in DOMAIN answers : answers[k].kind = "response" /\ answers[k].ok}
        data == answers[CHOOSE k \in good : \A j \in good : k <= j]
        Closure(feature, index) ==
            LET props == feature.properties
                coords == feature.coordinates
            IN  [id |-> jsString(toText(or(props.route, jsString(Chars("unknown"))))
                                 \o Chars("-") \o numberToString(index)),
                 route |-> or(props.route, jsString(Chars("Unknown"))),
                 direction |-> or(props.direction, jsString(<<>>)),
                 location |-> or(props.location, jsString(<<>>)),
                 description |-> or(props.description, jsString(<<>>)),
                 startDate |-> or(props.start_date, jsString(<<>>)),
                 endDate |-> or(props.end_date, jsString(<<>>)),
                 closureType |-> or(props.closure_type, jsString(<<>>)),
                 latitude |-> IF coords # <<>> THEN jsNumber(coords[2]) ELSE undefined,
                 longitude |-> IF coords # <<>> THEN jsNumber(coords[1]) ELSE undefined]
    IN  IF good = {} THEN <<>>
        ELSE [k \in 1..Len(data.features) |-> Closure(data.features[k], k - 1)]

\* JSON.stringify(closures, null, 2)
stringify(closures) ==
    LET Quote(t) == <<34>> \o flat([i \in 1..Len(t) |->
                                      IF t[i] \in {34, 92} THEN <<92, t[i]>>
                                      ELSE IF t[i] = 10 THEN <<92, 110>> ELSE <<t[i]>>])
                    \o <<34>>
        Value(v) == IF v.t = "string" THEN Quote(v.s) ELSE numberToString(v.n)
        Member(key, v) == IF v.t = "undefined" THEN <<>>
                          ELSE << Chars("    ") \o Quote(Chars(key)) \o Chars(": ") \o Value(v) >>
        Object(c) ==
            Chars("  {") \o <<10>>
            \o join(Member("id", c.id) \o Member("route", c.route)
                    \o Member("direction", c.direction) \o Member("location", c.location)
                    \o Member("description", c.description)
                    \o Member("startDate", c.startDate) \o Member("endDate", c.endDate)
                    \o Member("closureType", c.closureType)
                    \o Member("latitude", c.latitude) \o Member("longitude", c.longitude),
                    <<44, 10>>)
            \o <<10>> \o Chars("  }")
    IN  IF closures = <<>> THEN Chars("[]")
        ELSE Chars("[") \o <<10>>
             \o join([k \in 1..Len(closures) |-> Object(closures[k])], <<44, 10>>)
             \o <<10>> \o Chars("]")

\* generateRoadStatusSummary at hour now: the summary and the status code,
\* or the TypeError of toLowerCase on a field that is no string
generateRoadStatusSummary(closures, now) ==
    LET Truthy(v) == or(v, undefined) # undefined
        \* new Date(v): the hour of a date the model names, one before the
        \* clock's start for a number of milliseconds, none for an invalid date
        Date(v) == IF v.t = "number" THEN <<-1>>
                   ELSE IF v.s = Chars("2025-06-01T00:00:00Z") THEN <<0>>
                   ELSE IF v.s = Chars("2025-06-01T12:00:00Z") THEN <<12>>
                   ELSE <<>>
        Within(startDate, endDate) ==
            /\ startDate # <<>> /\ endDate # <<>>
            /\ now >= startDate[1] /\ now <= endDate[1]
        Active(c) ==
            IF Truthy(c.startDate) /\ Truthy(c.endDate)
            THEN Within(Date(c.startDate), Date(c.endDate))
            ELSE TRUE
        Has(v, word) == includes(toLowerCase(v.s), word)
        Full(c) == \/ Has(c.closureType, "full")
                   \/ Has(c.description, "closed") \/ Has(c.description, "closure")
        NoString(c) == \/ c.closureType.t = "number"
                       \/ ~Has(c.closureType, "full") /\ c.description.t = "number"
        Restricts(c) == \/ Has(c.description, "chain")
                        \/ Has(c.description, "restriction")
                        \/ Has(c.description, "one lane")
        Result(summary, statusCode) ==
            [threw |-> FALSE, summary |-> summary, statusCode |-> statusCode]
        Reported(lead, list, word, statusCode) ==
            Result(Chars(lead)
                   \o join(dedupe([k \in 1..Len(list) |-> toText(list[k].route)]), Chars(", "))
                   \o Chars(". ") \o numberToString(Len(list))
                   \o Chars(word) \o Chars(" Check source for details."), statusCode)
        Plain(list) ==
            Result(numberToString(Len(list)) \o Chars(" active lane closure(s) reported on ")
                   \o join(dedupe([k \in 1..Len(list) |-> toText(list[k].route)]), Chars(", "))
                   \o Chars(". Check source for details."), "restricted")
        Summary(activeClosures, fullClosures, restrictions) ==
            IF Len(activeClosures) = 0
            THEN Result(Chars("No active lane closures reported in this area."), "open")
            ELSE IF \E k \in 1..Len(activeClosures) : NoString(activeClosures[k])
            THEN [threw |-> TRUE, summary |-> <<>>, statusCode |-> "unknown"]
            ELSE IF Len(fullClosures) > 0
            THEN Reported("Road closures reported on ", fullClosures,
                          " active closure(s).", "closed")
            ELSE IF Len(restrictions) > 0
            THEN Reported("Road restrictions reported on ", restrictions,
                          " active restriction(s).",
                          IF \E k \in 1..Len(restrictions) :
                                 Has(restrictions[k].description, "chain")
                          THEN "chains_required" ELSE "restricted")
            ELSE Plain(activeClosures)
        Of(activeClosures) ==
            Summary(activeClosures, SelectSeq(activeClosures, Full),
                    SelectSeq(activeClosures, Restricts))
    IN  Of(SelectSeq(closures, Active))

(***************************************************************************)
(* The data of the model: one peak, with or without coordinates, and its   *)
(* two sources.                                                            *)
(***************************************************************************)
\* the peak row; gpsLat and gpsLng hold a number of degrees or nothing (null)
Peaks ==
    { [name |-> Chars("Mount Baldy"), gpsLat |-> <<34>>, gpsLng |-> <<-117>>,
       sources |-> {2}],
      [name |-> Chars("Mount Baldy"), gpsLat |-> <<>>, gpsLng |-> <<>>,
       sources |-> {1, 2}] }

\* the peakSource rows; a peak has those its sources field names
Sources ==
    << [id |-> "L1", sourceType |-> "LAND_MANAGER",
        url |-> Chars("https://www.fs.usda.gov/alerts/angeles")],
       [id |-> "R1", sourceType |-> "ROAD_STATUS",
        url |-> Chars("https://quickmap.dot.ca.gov/")],
       [id |-> "R2", sourceType |-> "ROAD_STATUS",
        url |-> Chars("https://dpw.lacounty.gov/roads")] >>

\* the last resort of fetchRoadStatusForPeak
lastResort(peakName) ==
    [rawText |-> Chars("Road status data for ") \o peakName
                 \o Chars(". Unable to automatically fetch conditions from QuickMap."),
     statusSummary |-> Chars("Road conditions near ") \o peakName
                 \o Chars(" could not be automatically retrieved. Please check QuickMap (quickmap.dot.ca.gov) or call 1-800-427-7623 for current conditions."),
     statusCode |-> "unknown"]

\* the raw texts the model can hold: the pages that scrape, the error texts,
\* the closures as JSON, the last resort
Texts ==
    LET Scrapes == {scrapeUrl(f, Sources[k].url, 20000, a) :
                       f \in BOOLEAN, k \in DOMAIN Sources, a \in ScrapeAnswers}
    IN
    {r.rawText : r \in {x \in Scrapes : ~x.threw}}
    \cup {Chars("Error: ") \o r.message : r \in {x \in Scrapes : x.threw}}
    \cup {stringify(fetchLaneClosuresByBoundingBox(0, 0, 50, api)) : api \in ApiAnswers}
    \cup {lastResort(peak.name).rawText : peak \in Peaks}


\* the road condition keywords the fetchers test a raw text for; the
\* orchestrator's list ends with open and closed
roadKeywords(withOpenClosed) ==
    << rx("lane closure"), rx("full closure"), lit("chain"), lit("construction"),
       lit("accident"), lit("incident"), lit("delay"), lit("traffic"), rx("road closed"),
       lit("restricted") >>
    \o (IF withOpenClosed THEN <<lit("open"), lit("closed")>> ELSE <<>>)

\* the summary the fetchers build from the conditions a raw text names, <<>>
\* when it names none
conditionsSummary(rawText) ==
    LET Cond(pats, name) == IF testAny(pats, rawText) THEN <<Chars(name)>> ELSE <<>>
        Summary(conditions) ==
            IF Len(conditions) > 0
            THEN Chars("Road conditions detected: ") \o join(conditions, Chars(", "))
                 \o Chars(". Check QuickMap for specific locations and details.")
            ELSE <<>>
    IN  Summary(Cond(<<rx("lane closure")>>, "lane closures")
                \o Cond(<<rx("full closure")>>, "full closures")
                \o Cond(<<lit("chain")>>, "chain requirements")
                \o Cond(<<lit("construction")>>, "construction")
                \o Cond(<<lit("accident"), lit("incident")>>, "incidents"))

\* what the fetchers compute from a raw text alone, computed once for the
\* raw texts of the model: inferStatusFromText(rawText).statusCode,
\* generateDetailedSummary(rawText), the tests for road condition keywords
\* and the summary of the conditions named
parsed ==
    [rawText \in Texts |->
        [statusCode |-> inferStatusFromText(rawText),
         detailedSummary |-> generateDetailedSummary(rawText, 250),
         hasRoadKeywords |-> [withOpenClosed \in BOOLEAN |->
                                 testAny(roadKeywords(withOpenClosed), rawText)],
         conditionsSummary |-> conditionsSummary(rawText)]]

\* fetchRoadStatusForPeak at hour now: the closures of the API when it gives
\* any answer, else what the map pages say, else the last resort.  api holds
\* the answers of the API's endpoints, quick the answers to the two scrapes of
\* the map.
fetchRoadStatusForPeak(parser, firecrawl, lat, lng, peakName, now, api, quick) ==
    LET \* lng - 0.1 and the like in a template literal, for whole degrees
        Decimal(sign, n) == sign \o numberToString(n \div 10) \o <<46>>
                            \o numberToString(n % 10)
        Tenths(n) == IF n < 0 THEN Decimal(<<45>>, -n) ELSE Decimal(<<>>, n)
        Scraped(rawText, summary, statusCode) ==
            [rawText |-> slice(rawText, 10000), statusSummary |-> summary,
             statusCode |-> statusCode]
        \* the map around the peak (L252-300)
        HasRealContent(summary, lowerSummary) ==
            /\ Len(summary) > 30
            /\ ~includesAny(lowerSummary, {"check source", "visit quickmap", "call 1-800",
                                           "enter highway number"})
        AreaOk(area, p) ==
            /\ ~area.threw
            /\ \/ HasRealContent(p.detailedSummary, toLowerCase(p.detailedSummary))
               \/ p.hasRoadKeywords[FALSE]
            /\ p.statusCode # "unknown"
        FinalSummary(p) ==
            IF /\ Len(p.detailedSummary) < 50 /\ p.hasRoadKeywords[FALSE]
               /\ p.conditionsSummary # <<>>
            THEN p.conditionsSummary ELSE p.detailedSummary
        \* the main page of the map (L304-337)
        MainOk(main, p) ==
            /\ ~main.threw
            /\ includesAny(toLowerCase(main.rawText),
                           {"chain control", "chains required", "road closed",
                            "lane closure", "traffic", "construction", "accident",
                            "incident", "delay"})
            /\ Len(p.detailedSummary) > 50
            /\ p.statusCode # "unknown"
        FromMap(area, main) ==
            IF AreaOk(area, parser[area.rawText])
            THEN Scraped(area.rawText, FinalSummary(parser[area.rawText]),
                         parser[area.rawText].statusCode)
            ELSE IF MainOk(main, parser[main.rawText])
            THEN Scraped(main.rawText, parser[main.rawText].detailedSummary,
                         parser[main.rawText].statusCode)
            ELSE lastResort(peakName)
        FromApi(closures, byApi) ==
            IF Len(closures) = 0
            THEN [rawText |-> stringify(closures),
                  statusSummary |-> Chars("No active lane closures reported in this area."),
                  statusCode |-> "open"]
            ELSE IF ~byApi.threw
            THEN [rawText |-> stringify(closures), statusSummary |-> byApi.summary,
                  statusCode |-> byApi.statusCode]
            ELSE FromMap(scrapeUrl(firecrawl,
                                   Chars("https://quickmap.dot.ca.gov/?extent=")
                                   \o Tenths(10 * lng - 1) \o <<44>> \o Tenths(10 * lat - 1)
                                   \o <<44>> \o Tenths(10 * lng + 1) \o <<44>>
                                   \o Tenths(10 * lat + 1),
                                   15000, quick[1]),
                         scrapeUrl(firecrawl, Chars("https://quickmap.dot.ca.gov/"), 15000,
                                   quick[2]))
        Of(closures) == FromApi(closures, generateRoadStatusSummary(closures, now))
    IN  Of(fetchLaneClosuresByBoundingBox(lat, lng, 50, api))

(***************************************************************************)
(* The fetch orchestrator (fetch-status-on-demand.ts).                     *)
(***************************************************************************)
\* the snapshot of a scraped page, were a page without status told apart
\* from the others and stored as a failed fetch
parsedSnapshotOrFailure(parser, sourceId, rawText, now) ==
    IF parser[rawText].statusCode = "unknown"
    THEN [peakSourceId |-> sourceId, rawText |-> Chars("Error: no status found"),
          statusSummary |-> Chars("Unable to fetch data automatically. Please check the source for current conditions."),
          statusCode |-> "unknown", fetchedAt |-> now]
    ELSE [peakSourceId |-> sourceId, rawText |-> slice(rawText, 10000),
          statusSummary |-> parser[rawText].detailedSummary,
          statusCode |-> parser[rawText].statusCode, fetchedAt |-> now]

\* the snapshot fetchStatusForSource stores for a scraped page (L160-187):
\* the first 10000 characters of the text, the summary and the status code
\* parsed from it
parsedSnapshot(parser, sourceId, rawText, now) ==
    [peakSourceId |-> sourceId, rawText |-> slice(rawText, 10000),
     statusSummary |-> parser[rawText].detailedSummary,
     statusCode |-> parser[rawText].statusCode, fetchedAt |-> now]

\* The body of fetchStatusForSource (inside its outer try) at hour now.  up
\* holds what the environment does during the call: whether the read of the
\* peak row (findUnique), the insert of the API snapshot (createRoad) and the
\* insert after the scrape (create) succeed, and the answers of the API, of
\* the map scrapes and of the scrape of the source.  The result tells whether
\* the body threw, the rows inserted, and which upstream calls were made.
fetchStatusForSourceBody(parser, firecrawl, peak, sourceId, sourceType, url, now, up) ==
    LET Row(rawText, statusSummary, statusCode) ==
            [peakSourceId |-> sourceId, rawText |-> rawText,
             statusSummary |-> statusSummary, statusCode |-> statusCode, fetchedAt |-> now]
        Done(threw, land, road, apiCalled, scraped) ==
            [threw |-> threw, land |-> land, road |-> road,
             apiCalled |-> apiCalled, scraped |-> scraped]
        isRoad == sourceType \in {"ROAD_STATUS", "Road Status"}
        isLand == sourceType \in {"LAND_MANAGER", "Land Manager"}
        Truthy(n) == n # <<>> /\ n[1] # 0
        \* the scrape of the source (L112-187); create is the insert it ends with
        ErrorSummary(is404, isTimeout) ==
            IF is404
            THEN Chars("Source URL appears to be invalid or returns a 404 error. Please update the source URL in the admin interface.")
            ELSE IF isTimeout
            THEN Chars("Data fetch timed out. Please check the source for current conditions.")
            ELSE Chars("Unable to fetch data automatically. Please check the source for current conditions.")
        ErrorRow(errorMessage) ==
            Row(Chars("Error: ") \o errorMessage,
                ErrorSummary(includes(errorMessage, "404") \/ includes(errorMessage, "not found"),
                             \/ includes(errorMessage, "timeout")
                             \/ includes(errorMessage, "Firecrawl request timeout")),
                "unknown")
        Created(row) == IF up.create THEN <<row>> ELSE <<>>
        Stored(apiCalled, rows) ==
            IF isLand THEN Done(~up.create, rows, <<>>, apiCalled, TRUE)
            ELSE Done(~up.create, <<>>, rows, apiCalled, TRUE)
        Scrape(apiCalled, result) ==
            IF result.threw
            THEN IF isLand \/ sourceType = "ROAD_STATUS"
                 THEN Stored(apiCalled, Created(ErrorRow(result.message)))
                 ELSE Done(FALSE, <<>>, <<>>, apiCalled, TRUE)
            ELSE Stored(apiCalled, Created(parsedSnapshot(parser, sourceId, result.rawText, now)))
        \* the road status of the API or the map (L47-108)
        HasMeaningfulData(statusSummary, lowerSummary) ==
            /\ statusSummary # <<>>
            /\ ~includes(lowerSummary, "could not be automatically retrieved")
            /\ ~includes(lowerSummary, "unable to automatically fetch")
            /\ Len(statusSummary) > 20
        FinalSummary(roadStatus, hasMeaningfulData, p) ==
            IF roadStatus.rawText = Chars("[]") /\ roadStatus.statusSummary # <<>>
            THEN roadStatus.statusSummary
            ELSE IF ~hasMeaningfulData /\ p.hasRoadKeywords[TRUE] /\ p.conditionsSummary # <<>>
            THEN p.conditionsSummary
            ELSE roadStatus.statusSummary
        Road(roadStatus, hasMeaningfulData, p) ==
            IF /\ \/ hasMeaningfulData \/ p.hasRoadKeywords[TRUE]
                  \/ roadStatus.rawText = Chars("[]")
               /\ up.createRoad
            THEN Done(FALSE, <<>>,
                      <<Row(slice(roadStatus.rawText, 10000),
                            FinalSummary(roadStatus, hasMeaningfulData, p),
                            roadStatus.statusCode)>>,
                      TRUE, FALSE)
            ELSE Scrape(TRUE, scrapeUrl(firecrawl, url, 20000, up.scrape))
        WithRoad(roadStatus) ==
            Road(roadStatus,
                 HasMeaningfulData(roadStatus.statusSummary,
                                   toLowerCase(roadStatus.statusSummary)),
                 parser[roadStatus.rawText])
        Caltrans(isCaltransSource) ==
            IF isCaltransSource /\ ~up.findUnique
            THEN \* the read of the peak row throws
                 Done(TRUE, <<>>, <<>>, FALSE, FALSE)
            ELSE IF isCaltransSource /\ Truthy(peak.gpsLat) /\ Truthy(peak.gpsLng)
            THEN WithRoad(fetchRoadStatusForPeak(parser, firecrawl, peak.gpsLat[1],
                                                 peak.gpsLng[1], peak.name, now,
                                                 up.api, up.quick))
            ELSE Scrape(FALSE, scrapeUrl(firecrawl, url, 20000, up.scrape))
    IN  Caltrans(isRoad /\ includesAny(url, {"caltrans", "dot.ca.gov", "quickmap",
                                             "alpha.ca.gov", "roads.dot.ca.gov"}))

\* fetchStatusForSource without its outer catch: what the body throws reaches
\* the caller
fetchStatusForSourceUncaught(parser, firecrawl, peak, sourceId, sourceType, url, now, up) ==
    LET Thrown(body) ==
            [rejected |-> body.threw, message |-> <<>>, land |-> body.land,
             road |-> body.road, apiCalled |-> body.apiCalled, scraped |-> body.scraped,
             apiFailed |-> body.apiCalled /\ apiFails(up.api)]
    IN  Thrown(fetchStatusForSourceBody(parser, firecrawl, peak, sourceId, sourceType, url,
                                        now, up))

\* fetchStatusForSource: the outer catch logs what the body throws and
\* returns, so the promise resolves with the rows the body had inserted
fetchStatusForSource(parser, firecrawl, peak, sourceId, sourceType, url, now, up) ==
    LET Caught(body) ==
            [rejected |-> FALSE, message |-> <<>>, land |-> body.land, road |-> body.road,
             apiCalled |-> body.apiCalled, scraped |-> body.scraped,
             apiFailed |-> body.apiCalled /\ apiFails(up.api)]
    IN  Caught(fetchStatusForSourceBody(parser, firecrawl, peak, sourceId, sourceType, url,
                                        now, up))

\* what the environment can do during one fetchStatusForSource: every
\* answer of the API with every answer of the scrape of the source and every
\* outcome of the store calls, the map scrapes timing out; and, where the API
\* summary throws, the two map scrapes timing out, finding a page about the
\* road or finding the navigation page as well
Upstreams ==
    LET late == CHOOSE a \in ScrapeAnswers : a.kind = "late"
        quicks == {a \in ScrapeAnswers :
                      \/ a.kind = "late"
                      \/ a.markdown \in {Chars("Road closed due to washout"),
                                         Chars("Enter highway number or visit Road Information pages for the area")}}
        throwing == {a \in ApiAnswers :
                        generateRoadStatusSummary(
                            fetchLaneClosuresByBoundingBox(0, 0, 50, a), 0).threw}
    IN  {[findUnique |-> f, createRoad |-> cr, create |-> c, api |-> a,
          quick |-> <<late, late>>, scrape |-> s] :
            f \in BOOLEAN, cr \in BOOLEAN, c \in BOOLEAN,
            a \in ApiAnswers, s \in ScrapeAnswers}
        \cup
        {[findUnique |-> TRUE, createRoad |-> cr, create |-> TRUE, api |-> a,
          quick |-> <<q1, q2>>, scrape |-> s] :
            cr \in BOOLEAN, a \in throwing, q1 \in quicks, q2 \in quicks,
            s \in ScrapeAnswers}

\* the hours the clock can show
Hours == {t \in 0..MaxTime : t % TickHours = 0}

\* the answers met day to day, to which the system below keeps: the API
\* answers without closures or not at all, the scrape of the source times
\* out or finds a page about the road, the map scrapes time out, and the
\* store takes every insert or none
Usual ==
    {up \in Upstreams :
        /\ up.findUnique
        /\ up.createRoad = up.create
        /\ \A i \in DOMAIN up.quick : up.quick[i].kind = "late"
        /\ \/ \A i \in DOMAIN up.api : up.api[i].kind = "error"
           \/ up.api[1].ok /\ up.api[1].features = <<>>
        /\ \/ up.scrape.kind = "late"
           \/ up.scrape.markdown = Chars("Road closed due to washout")}

\* the results fetchStatusForSource can have under the answers ups, for each
\* configuration, peak, source and hour
resultsOver(ups) ==
    LET Table(parser) ==
            [firecrawl \in BOOLEAN, peak \in Peaks, k \in DOMAIN Sources, now \in Hours |->
                {fetchStatusForSource(parser, firecrawl, peak, Sources[k].id,
                                      Sources[k].sourceType, Sources[k].url, now, up) :
                    up \in ups}]
    IN  Table(parsed)

\* computed once
usualResults == resultsOver(Usual)

(***************************************************************************)
(* The scheduled jobs and the maintenance script.                          *)
(***************************************************************************)
\* the requests a job is posted with: whether CRON_SECRET is set, and what
\* the Authorization header holds
Requests == [cronSecret : BOOLEAN, authorization : {"none", "Bearer secret", "Bearer other"}]

\* the test, were a request without Authorization header let through
unauthorizedHeader(request) ==
    request.cronSecret /\ request.authorization \notin {"none", "Bearer secret"}

\* the test the three jobs open with
unauthorized(request) == request.cronSecret /\ request.authorization # "Bearer secret"

\* what the loop of a job has done so far: the rows inserted, the counters
\* and the error entries of its results, the sources or peaks attempted in
\* their order, and the number of calls to an upstream
noAttempts ==
    [rows |-> <<>>, successful |-> 0, failed |-> 0, errors |-> <<>>, attempted |-> <<>>,
     fetches |-> 0]

\* an attempt that inserted rows after so many upstream calls, one that threw
insertedAfter(rows, fetches) == [rows |-> rows, threw |-> FALSE, fetches |-> fetches]
thrownAfter(fetches) == [rows |-> <<>>, threw |-> TRUE, fetches |-> fetches]

\* one pass of the loop, were the loop left at the first failure
attemptUntilFailure(id, attempt, rest) ==
    IF attempt.threw
    THEN [rows |-> <<>>, successful |-> 0, failed |-> 1, errors |-> <<id>>,
          attempted |-> <<id>>, fetches |-> attempt.fetches]
    ELSE [rows |-> attempt.rows \o rest.rows, successful |-> 1 + rest.successful,
          failed |-> rest.failed, errors |-> rest.errors,
          attempted |-> <<id>> \o rest.attempted,
          fetches |-> attempt.fetches + rest.fetches]

\* one pass of the loop for id, followed by the passes that remained:
\* successful++ after the insert, failed++ and errors.push in the catch
attemptThen(id, attempt, rest) ==
    [rows |-> attempt.rows \o rest.rows,
     successful |-> (IF attempt.threw THEN 0 ELSE 1) + rest.successful,
     failed |-> (IF attempt.threw THEN 1 ELSE 0) + rest.failed,
     errors |-> (IF attempt.threw THEN <<id>> ELSE <<>>) \o rest.errors,
     attempted |-> <<id>> \o rest.attempted,
     fetches |-> attempt.fetches + rest.fetches]

\* the answer of a job: the HTTP status, the rows inserted in each store and,
\* when the status is 200, the results of the loop
jobAnswer(status, total, land, road, weather, loop) ==
    [status |-> status, land |-> land, road |-> road, weather |-> weather,
     total |-> total, successful |-> loop.successful, failed |-> loop.failed,
     errors |-> loop.errors, attempted |-> loop.attempted, fetches |-> loop.fetches]

\* POST /api/jobs/refresh-land-status at hour now: the answer, with the rows
\* inserted; every source meets the same upstream answers up
refreshLandStatus(parser, firecrawl, peak, now, request, up) ==
    LET sources == {k \in peak.sources : Sources[k].sourceType = "LAND_MANAGER"}
        Stored(source, result) ==
            IF result.threw \/ ~up.create THEN thrownAfter(1)
            ELSE insertedAfter(<<[peakSourceId |-> source.id,
                              rawText |-> slice(result.rawText, 10000),
                              statusSummary |-> parser[result.rawText].detailedSummary,
                              statusCode |-> parser[result.rawText].statusCode,
                              fetchedAt |-> now]>>, 1)
        Attempt(source) == Stored(source, scrapeUrl(firecrawl, source.url, 30000, up.scrape))
        loop[ks \in SUBSET sources] ==
            IF ks = {} THEN noAttempts
            ELSE LET k == CHOOSE j \in ks : \A i \in ks : j <= i
                 IN  attemptThen(Sources[k].id, Attempt(Sources[k]), loop[ks \ {k}])
        Answer(status, done) ==
            jobAnswer(status, IF status = 200 /\ sources # {} THEN 1 ELSE 0,
                      done.rows, <<>>, <<>>, done)
    IN  IF unauthorized(request) THEN Answer(401, noAttempts)
        ELSE IF ~firecrawl THEN Answer(500, noAttempts)
        ELSE Answer(200, loop[sources])

\* POST /api/jobs/refresh-road-status at hour now
refreshRoadStatus(parser, firecrawl, peak, now, request, up) ==
    LET sources == {k \in peak.sources : Sources[k].sourceType = "ROAD_STATUS"}
        Row(source, rawText, statusSummary, statusCode) ==
            [peakSourceId |-> source.id, rawText |-> slice(rawText, 10000),
             statusSummary |-> statusSummary, statusCode |-> statusCode, fetchedAt |-> now]
        Scraped(source, result, fetches) ==
            IF result.threw \/ ~up.create THEN thrownAfter(fetches)
            ELSE insertedAfter(<<Row(source, result.rawText,
                                 parser[result.rawText].detailedSummary,
                                 parser[result.rawText].statusCode)>>, fetches)
        ByApi(source, roadStatus) ==
            IF up.createRoad
            THEN insertedAfter(<<Row(source, roadStatus.rawText, roadStatus.statusSummary,
                                 roadStatus.statusCode)>>, 1)
            ELSE Scraped(source, scrapeUrl(firecrawl, source.url, 30000, up.scrape), 2)
        Attempt(source) ==
            IF /\ includesAny(source.url, {"caltrans", "dot.ca.gov", "quickmap", "alpha.ca.gov"})
               /\ peak.gpsLat # <<>> /\ peak.gpsLat[1] # 0
               /\ peak.gpsLng # <<>> /\ peak.gpsLng[1] # 0
            THEN ByApi(source, fetchRoadStatusForPeak(parser, firecrawl, peak.gpsLat[1],
                                                      peak.gpsLng[1], peak.name, now,
                                                      up.api, up.quick))
            ELSE Scraped(source, scrapeUrl(firecrawl, source.url, 30000, up.scrape), 1)
        loop[ks \in SUBSET sources] ==
            IF ks = {} THEN noAttempts
            ELSE LET k == CHOOSE j \in ks : \A i \in ks : j <= i
                 IN  attemptThen(Sources[k].id, Attempt(Sources[k]), loop[ks \ {k}])
        Answer(status, done) ==
            jobAnswer(status, IF status = 200 /\ sources # {} THEN 1 ELSE 0,
                      <<>>, done.rows, <<>>, done)
    IN  IF unauthorized(request) THEN Answer(401, noAttempts)
        ELSE IF ~firecrawl THEN Answer(500, noAttempts)
        ELSE IF sources # {} /\ ~up.findUnique
        THEN \* the read of the peak's coordinates throws, outside the loop's try
             Answer(500, noAttempts)
        ELSE Answer(200, loop[sources])

\* POST /api/jobs/refresh-weather at hour now: the weather of every peak with
\* coordinates is fetched and stored; weatherOk tells whether the fetch and
\* the insert succeed
refreshWeather(peak, now, request, weatherOk) ==
    LET peaks == IF peak.gpsLat # <<>> /\ peak.gpsLng # <<>> THEN <<peak>> ELSE <<>>
        Attempt(p) ==
            IF weatherOk THEN insertedAfter(<<[source |-> "NOAA", fetchedAt |-> now]>>, 1)
            ELSE thrownAfter(1)
        loop[i \in 1..(Len(peaks) + 1)] ==
            IF i > Len(peaks) THEN noAttempts
            ELSE IF peaks[i].gpsLat[1] = 0 \/ peaks[i].gpsLng[1] = 0 THEN loop[i + 1]
            ELSE attemptThen(peaks[i].name, Attempt(peaks[i]), loop[i + 1])
        Answer(status, total, done) ==
            jobAnswer(status, total, <<>>, <<>>, done.rows, done)
    IN  IF unauthorized(request) THEN Answer(401, 0, noAttempts)
        ELSE Answer(200, Len(peaks), loop[1])

\* the answers the two jobs can give under the usual upstream answers, for
\* each configuration, peak and hour, computed once
landJobResults ==
    LET Table(parser) ==
            [firecrawl \in BOOLEAN, peak \in Peaks, now \in Hours |->
                {refreshLandStatus(parser, firecrawl, peak, now, request, up) :
                    request \in Requests, up \in Usual}]
    IN  Table(parsed)
roadJobResults ==
    LET Table(parser) ==
            [firecrawl \in BOOLEAN, peak \in Peaks, now \in Hours |->
                {refreshRoadStatus(parser, firecrawl, peak, now, request, up) :
                    request \in Requests, up \in Usual}]
    IN  Table(parsed)

\* reprocess that infers the status code again as well
reprocessWithStatusCode(parser, snapshot) ==
    IF snapshot.rawText # <<>>
    THEN [snapshot EXCEPT !.statusSummary = parser[snapshot.rawText].detailedSummary,
                          !.statusCode = parser[snapshot.rawText].statusCode]
    ELSE snapshot

\* reprocess-status-summaries, on one snapshot: the summary is computed again
\* from the raw text and written over the stored one when it differs
reprocess(parser, snapshot) ==
    IF snapshot.rawText # <<>>
    THEN [snapshot EXCEPT !.statusSummary = parser[snapshot.rawText].detailedSummary]
    ELSE snapshot

(***************************************************************************)
(* The snapshot stores and their readers.                                  *)
(***************************************************************************)
\* an insert that replaces the snapshot the source already has
createOrReplace(store, rows) ==
    SelectSeq(store, LAMBDA s : \A i \in DOMAIN rows : rows[i].peakSourceId # s.peakSourceId)
    \o rows

\* prisma's create: the row joins the table
create(store, rows) == store \o rows

\* findMany({orderBy: {fetchedAt: 'desc'}}).  A store holds its rows in the
\* order of their insertion, which is the order of their fetchedAt: an insert
\* stamps the row with the clock, of which the row keeps the hour.  The id of
\* a row is its place in the store.
findMany(store) ==
    [i \in 1..Len(store) |->
        [id |-> Len(store) + 1 - i,
         peakSourceId |-> store[Len(store) + 1 - i].peakSourceId,
         fetchedAt |-> store[Len(store) + 1 - i].fetchedAt,
         statusSummary |-> store[Len(store) + 1 - i].statusSummary]]

\* take: n
take(rows, n) == SubSeq(rows, 1, IF Len(rows) < n THEN Len(rows) ELSE n)

\* a map that keeps for each key the entry that comes first in rows
newMapFirst(rows) ==
    [id \in {rows[i].peakSourceId : i \in DOMAIN rows} |->
        rows[CHOOSE i \in DOMAIN rows :
                /\ rows[i].peakSourceId = id
                /\ \A j \in DOMAIN rows : rows[j].peakSourceId = id => i <= j]]

\* new Map(rows.map((s) => [s.peakSourceId, s])): for each key the entry
\* that comes last in rows
newMap(rows) ==
    [id \in {rows[i].peakSourceId : i \in DOMAIN rows} |->
        rows[CHOOSE i \in DOMAIN rows :
                /\ rows[i].peakSourceId = id
                /\ \A j \in DOMAIN rows : rows[j].peakSourceId = id => j <= i]]

\* isStale with the threshold age counted as stale
isStaleAtThreshold(fetchedAt, now) ==
    fetchedAt = <<>> \/ now - fetchedAt[1] >= STALE_THRESHOLD_HOURS

\* isStale: fetchedAt is <<>> for null, else the hour in a tuple
isStale(fetchedAt, now) ==
    fetchedAt = <<>> \/ now - fetchedAt[1] > STALE_THRESHOLD_HOURS

\* ensureFreshStatus refreshing every source as soon as one needs it
ensureFreshStatusTogether(force, peak, land, road, now) ==
    LET sources == {k \in peak.sources :
                       Sources[k].sourceType \in {"LAND_MANAGER", "ROAD_STATUS"}}
        latestLandBySource == newMap(findMany(land))
        latestRoadBySource == newMap(findMany(road))
        Refetch(source) ==
            LET bySource == IF source.sourceType = "LAND_MANAGER"
                            THEN latestLandBySource ELSE latestRoadBySource
                found == source.id \in DOMAIN bySource
                latestSnapshot == bySource[source.id]
                isStaleData == ~found \/ isStale(<<latestSnapshot.fetchedAt>>, now)
                summary == toLowerCase(latestSnapshot.statusSummary)
                hasGenericMessage ==
                    /\ found
                    /\ latestSnapshot.statusSummary # <<>>
                    /\ source.sourceType = "ROAD_STATUS"
                    /\ \/ includes(summary, "visit quickmap")
                       \/ includes(summary, "call 1-800")
                       \/ includes(summary, "could not be automatically retrieved")
                       \/ includes(summary, "unable to automatically fetch")
            IN  force \/ isStaleData \/ hasGenericMessage
    IN  {k \in sources : \E other \in sources : Refetch(Sources[other])}

\* the sources ensureFreshStatus starts a fetch for
ensureFreshStatus(force, peak, land, road, now) ==
    LET sources == {k \in peak.sources :
                       Sources[k].sourceType \in {"LAND_MANAGER", "ROAD_STATUS"}}
        latestLandBySource == newMap(findMany(land))
        latestRoadBySource == newMap(findMany(road))
        Refetch(source) ==
            LET bySource == IF source.sourceType = "LAND_MANAGER"
                            THEN latestLandBySource ELSE latestRoadBySource
                found == source.id \in DOMAIN bySource
                latestSnapshot == bySource[source.id]
                isStaleData == ~found \/ isStale(<<latestSnapshot.fetchedAt>>, now)
                summary == toLowerCase(latestSnapshot.statusSummary)
                hasGenericMessage ==
                    /\ found
                    /\ latestSnapshot.statusSummary # <<>>
                    /\ source.sourceType = "ROAD_STATUS"
                    /\ \/ includes(summary, "visit quickmap")
                       \/ includes(summary, "call 1-800")
                       \/ includes(summary, "could not be automatically retrieved")
                       \/ includes(summary, "unable to automatically fetch")
            IN  force \/ isStaleData \/ hasGenericMessage
    IN  {k \in sources : Refetch(Sources[k])}

\* whether ensureFreshWeather starts a weather fetch
ensureFreshWeather(force, peak, weather, now) ==
    LET latestWeather == weather[Len(weather)]
        isWeatherStale ==
            IF weather # <<>>
            THEN now - latestWeather.fetchedAt > WEATHER_STALE_THRESHOLD_HOURS
            ELSE TRUE
    IN  /\ peak.gpsLat # <<>> /\ peak.gpsLat[1] # 0
        /\ peak.gpsLng # <<>> /\ peak.gpsLng[1] # 0
        /\ (force \/ isWeatherStale)

(***************************************************************************)
(* The system: one peak with its sources, the three snapshot stores, the   *)
(* fetches in flight and the page render in progress.                      *)
(***************************************************************************)
VARIABLES
    clock,             \* wall clock, in hours
    peakRow,            \* the peak row
    FIRECRAWL_API_KEY,       \* whether FIRECRAWL_API_KEY is set
    FORCE_REFRESH,   \* the server's FORCE_REFRESH, read when the module loads
    landStore,       \* landStatusSnapshot table, in insertion order
    roadStore,       \* roadStatusSnapshot table, in insertion order
    weatherStore,    \* weatherSnapshot table, in insertion order
    inflight,        \* per source: the fetchStatusForSource calls not yet settled
    weatherInFlight, \* background fetchWeatherForPeak calls not yet settled
    render,          \* the page render waiting for its foreground fetches
    lastOp             \* what the last operation did

vars == <<clock, peakRow, FIRECRAWL_API_KEY, FORCE_REFRESH, landStore, roadStore, weatherStore,
          inflight, weatherInFlight, render, lastOp>>

config == <<peakRow, FIRECRAWL_API_KEY, FORCE_REFRESH>>
stores == <<landStore, roadStore, weatherStore>>

\* the record an operation leaves in last
Note(op) ==
    [op |-> op, k |-> 0, origin |-> "", rejected |-> FALSE, apiCalled |-> FALSE,
     scraped |-> FALSE, apiFailed |-> FALSE, inserted |-> 0, together |-> FALSE,
     env |-> FALSE, force |-> FALSE, started |-> {}, displayed |-> FALSE,
     landStatuses |-> <<>>, roadStatuses |-> <<>>, up |-> <<>>, rows |-> <<>>,
     updated |-> 0, input |-> <<>>, maxLength |-> 0, statusCode |-> "",
     output |-> <<>>, weatherFailed |-> FALSE, request |-> <<>>, answer |-> <<>>]

\* the calls of fetchStatusForSource in flight
InFlight ==
    LET count[ks \in SUBSET DOMAIN Sources] ==
            IF ks = {} THEN 0
            ELSE LET k == CHOOSE j \in ks : TRUE
                 IN  inflight[k].abandoned + inflight[k].background + count[ks \ {k}]
    IN  count[DOMAIN Sources] + Cardinality(render.pending)

\* the deployments looked at: the peak with coordinates; the peak without,
\* once with the scraping key, once without it and with
\* FORCE_STATUS_REFRESH=true in the server's environment
Deployments ==
    LET Deployment(coordinates, apiKey, forceStatusRefresh) ==
            [peak |-> CHOOSE p \in Peaks : (p.gpsLat # <<>>) = coordinates,
             apiKey |-> apiKey, forceStatusRefresh |-> forceStatusRefresh]
    IN  {Deployment(TRUE, TRUE, FALSE), Deployment(FALSE, TRUE, FALSE),
         Deployment(FALSE, FALSE, TRUE)}

\* the state after construction, at one of the given hours and in one of the
\* given deployments
InitOf(hours, deployments) ==
    /\ clock \in hours
    /\ \E deployment \in deployments :
        /\ peakRow = deployment.peak
        /\ FIRECRAWL_API_KEY = deployment.apiKey
        /\ FORCE_REFRESH = deployment.forceStatusRefresh
    /\ landStore = <<>>
    /\ roadStore = <<>>
    /\ weatherStore = <<>>
    /\ inflight = [k \in DOMAIN Sources |->
                      [abandoned |-> 0, background |-> 0, together |-> FALSE]]
    /\ weatherInFlight = 0
    /\ render = [pc |-> "idle", pending |-> {}]
    /\ lastOp = Note("init")

InitAt(hours) == InitOf(hours, Deployments)

Init == InitAt({0})

\* hours pass; no call lasts hours, so none is in progress meanwhile
Tick ==
    /\ clock + TickHours <= MaxTime
    /\ InFlight = 0
    /\ weatherInFlight = 0
    /\ render.pc = "idle"
    /\ clock' = clock + TickHours
    /\ lastOp' = Note("tick")
    /\ UNCHANGED <<config, stores, inflight, weatherInFlight, render>>

\* ensureFreshStatus that awaits the fetches it starts: none is in flight
\* when it returns
EnsureFreshStatusAwaited(force, weather, note) ==
    LET Started(started, weatherStarted) ==
            /\ InFlight + Cardinality(started) <= MaxInFlight
            /\ weatherStarted => weatherInFlight < MaxWeather
            /\ inflight' = inflight
            /\ weatherInFlight' = weatherInFlight
            /\ lastOp' = [note EXCEPT !.force = force, !.started = started]
    IN  Started(ensureFreshStatus(force, peakRow, landStore, roadStore, clock),
                ensureFreshWeather(force, peakRow, weather, clock))

\* ensureFreshStatus called with the given FORCE_REFRESH while the weather
\* store holds weather: the fetches it starts run in the background and the
\* call returns
EnsureFreshStatus(force, weather, note) ==
    LET Started(started, weatherStarted) ==
            /\ InFlight + Cardinality(started) <= MaxInFlight
            /\ weatherStarted => weatherInFlight < MaxWeather
            /\ inflight' = [k \in DOMAIN Sources |->
                                IF k \in started
                                THEN [inflight[k] EXCEPT
                                         !.background = @ + 1,
                                         !.together = @ \/ inflight[k].background > 0]
                                ELSE inflight[k]]
            /\ weatherInFlight' = weatherInFlight + (IF weatherStarted THEN 1 ELSE 0)
            /\ lastOp' = [note EXCEPT !.force = force, !.started = started]
    IN  Started(ensureFreshStatus(force, peakRow, landStore, roadStore, clock),
                ensureFreshWeather(force, peakRow, weather, clock))

\* scripts/refresh-peak-status.ts: the import of fetch-status-on-demand reads
\* FORCE_STATUS_REFRESH from the environment the script was started with;
\* main then sets the variable to 'true' and calls ensureFreshStatus
RefreshPeakStatus ==
    \E shell \in BOOLEAN :
        LET FORCE == shell
            env == TRUE
        IN  /\ EnsureFreshStatus(FORCE, weatherStore,
                                  [Note("refresh-peak-status") EXCEPT !.env = env])
            /\ UNCHANGED <<clock, config, stores, render>>

\* a fetchStatusForSource call in flight for source k settles; origin tells
\* who started it: "racing" a render that still waits for it, "abandoned" a
\* render whose timer has fired, "background" ensureFreshStatus
CompleteFetch(results, k, origin) ==
    /\ \/ origin = "racing" /\ k \in render.pending
       \/ origin = "abandoned" /\ inflight[k].abandoned > 0
       \/ origin = "background" /\ inflight[k].background > 0
    /\ \E r \in results[FIRECRAWL_API_KEY, peakRow, k, clock] :
        LET \* the page's catch creates a placeholder when the fetch rejects
            isTimeout == includes(r.message, "timeout")
            placeholder ==
                [peakSourceId |-> Sources[k].id,
                 rawText |-> Chars("Error: ") \o r.message,
                 statusSummary |->
                    IF isTimeout
                    THEN Chars("Data fetch timed out. Please check the source for current conditions.")
                    ELSE Chars("Unable to fetch data automatically. Please check the source for current conditions."),
                 statusCode |-> "unknown", fetchedAt |-> clock]
            caught == r.rejected /\ origin # "background"
            land == IF caught /\ Sources[k].sourceType = "LAND_MANAGER"
                    THEN r.land \o <<placeholder>> ELSE r.land
            road == IF caught /\ Sources[k].sourceType = "ROAD_STATUS"
                    THEN r.road \o <<placeholder>> ELSE r.road
        IN  /\ Len(landStore) + Len(roadStore) + Len(land) + Len(road) <= MaxSnapshots
            /\ landStore' = create(landStore, land)
            /\ roadStore' = create(roadStore, road)
            /\ render' = IF origin = "racing"
                         THEN [render EXCEPT !.pending = @ \ {k}] ELSE render
            /\ inflight' =
                 IF origin = "abandoned"
                 THEN [inflight EXCEPT ![k].abandoned = @ - 1]
                 ELSE IF origin = "background"
                 THEN [inflight EXCEPT ![k].background = @ - 1,
                                       ![k].together = @ /\ inflight[k].background > 1]
                 ELSE inflight
            /\ lastOp' = [Note("fetch") EXCEPT
                           !.k = k, !.origin = origin, !.rejected = r.rejected,
                           !.inserted = Len(land) + Len(road),
                           !.together = origin = "background" /\ inflight[k].together]
    /\ UNCHANGED <<clock, config, weatherStore, weatherInFlight>>

\* a background fetchWeatherForPeak settles and a snapshot is stored whether
\* it brought a forecast or an error
CompleteWeatherAlwaysStored ==
    /\ weatherInFlight > 0
    /\ weatherInFlight' = weatherInFlight - 1
    /\ \E ok \in BOOLEAN :
        /\ ok => Len(weatherStore) < MaxWeather
        /\ weatherStore' = Append(weatherStore, [source |-> "NOAA", fetchedAt |-> clock])
        /\ lastOp' = [Note("weather") EXCEPT !.inserted = IF ok THEN 1 ELSE 0,
                                             !.weatherFailed = ~ok]
    /\ UNCHANGED <<clock, config, landStore, roadStore, inflight, render>>

\* a background fetchWeatherForPeak settles: with a forecast, which is
\* stored, or with an error, which is logged
CompleteWeather ==
    /\ weatherInFlight > 0
    /\ weatherInFlight' = weatherInFlight - 1
    /\ \E ok \in BOOLEAN :
        /\ ok => Len(weatherStore) < MaxWeather
        /\ weatherStore' = IF ok
                           THEN Append(weatherStore, [source |-> "NOAA", fetchedAt |-> clock])
                           ELSE weatherStore
        /\ lastOp' = [Note("weather") EXCEPT !.inserted = IF ok THEN 1 ELSE 0,
                                             !.weatherFailed = ~ok]
    /\ UNCHANGED <<clock, config, landStore, roadStore, inflight, render>>

\* the snapshot a reader shows for each source: the ids of the values of
\* new Map(snapshots.map((s) => [s.peakSourceId, s]))
statuses(snapshots) ==
    LET bySource == newMap(snapshots)
    IN  [id \in DOMAIN bySource |-> bySource[id].id]

\* the page render up to its wait: the weather is fetched in the foreground
\* when the peak has coordinates and no weather snapshot; then, when a source
\* has no snapshot, the missing sources are fetched, each racing a timer;
\* otherwise ensureFreshStatus is called and the page shows the snapshots
pageFromWeather(attempted, weatherOk) ==
    LET allSources == {k \in peakRow.sources :
                          Sources[k].sourceType \in {"LAND_MANAGER", "ROAD_STATUS"}}
        landStatusSnapshots == take(findMany(landStore), 100)
        roadStatusSnapshots == take(findMany(roadStore), 100)
        Missing(sourceType, snapshots) ==
            {k \in allSources :
                /\ Sources[k].sourceType = sourceType
                /\ Sources[k].id \notin {snapshots[i].peakSourceId : i \in DOMAIN snapshots}}
        Status(missing, weather, weatherFailed) ==
            IF missing # {}
            THEN /\ InFlight + Cardinality(missing) <= MaxInFlight
                 /\ render' = [pc |-> "waiting", pending |-> missing]
                 /\ lastOp' = [Note("page") EXCEPT !.started = missing,
                                                  !.weatherFailed = weatherFailed]
                 /\ UNCHANGED <<inflight, weatherInFlight>>
            ELSE /\ EnsureFreshStatus(FORCE_REFRESH, weather,
                                      [Note("page") EXCEPT
                                          !.displayed = TRUE,
                                          !.weatherFailed = weatherFailed,
                                          !.landStatuses = statuses(landStatusSnapshots),
                                          !.roadStatuses = statuses(roadStatusSnapshots)])
                 /\ render' = [pc |-> "idle", pending |-> {}]
        Weather(weather, weatherFailed) ==
            /\ weatherStore' = weather
            /\ Status(Missing("LAND_MANAGER", landStatusSnapshots)
                      \cup Missing("ROAD_STATUS", roadStatusSnapshots), weather,
                      weatherFailed)
    IN  /\ IF attempted /\ weatherOk
           THEN Weather(Append(weatherStore, [source |-> "NOAA", fetchedAt |-> clock]),
                        FALSE)
           ELSE Weather(weatherStore, attempted)
        /\ UNCHANGED <<clock, config, landStore, roadStore>>

\* the page fetches the weather itself: no weather snapshot, and coordinates
weatherAttempted ==
    /\ weatherStore = <<>>
    /\ peakRow.gpsLat # <<>> /\ peakRow.gpsLat[1] # 0
    /\ peakRow.gpsLng # <<>> /\ peakRow.gpsLng[1] # 0

\* GET /peaks/[slug].  The weather API answers the fetch of the page, or
\* the page is left awaiting fetchWeatherForPeak, which no timer ends.
PeakConditionsPage ==
    /\ render.pc = "idle"
    /\ \/ \E weatherOk \in BOOLEAN : pageFromWeather(weatherAttempted, weatherOk)
       \/ /\ weatherAttempted
          /\ render' = [pc |-> "weather", pending |-> {}]
          /\ lastOp' = Note("page-weather")
          /\ UNCHANGED <<clock, config, stores, inflight, weatherInFlight>>

\* the weather API answers at last, and the page goes on
PageAfterWeather ==
    /\ render.pc = "weather"
    /\ \E weatherOk \in BOOLEAN :
          /\ weatherOk => Len(weatherStore) < MaxWeather
          /\ pageFromWeather(TRUE, weatherOk)


\* the 6 second timer of source k, with the fetch not raced against it: the
\* timer fires and the render keeps waiting for the fetch
PerSourceTimeoutUnraced(k) ==
    /\ render.pc = "waiting"
    /\ k \in render.pending
    /\ lastOp' = [Note("timeout") EXCEPT !.k = k]
    /\ UNCHANGED <<clock, config, stores, inflight, weatherInFlight, render>>

\* the 6 second timer of source k fires before its fetch settles: the race
\* resolves, and the fetch goes on
PerSourceTimeout(k) ==
    /\ render.pc = "waiting"
    /\ k \in render.pending
    /\ render' = [render EXCEPT !.pending = @ \ {k}]
    /\ inflight' = [inflight EXCEPT ![k].abandoned = @ + 1]
    /\ lastOp' = [Note("timeout") EXCEPT !.k = k]
    /\ UNCHANGED <<clock, config, stores, weatherInFlight>>

\* every race of the render is settled: the page reads the snapshots again
\* and shows them.  The 10 second timer of the batch is set after the 6
\* second timers of the sources, so it fires after them, when every race is
\* settled and the wait is over.
PageAfterWait ==
    /\ render.pc = "waiting"
    /\ render.pending = {}
    /\ render' = [render EXCEPT !.pc = "idle"]
    /\ lastOp' = [Note("page") EXCEPT
                     !.origin = "waited", !.displayed = TRUE,
                     !.landStatuses = statuses(take(findMany(landStore), 100)),
                     !.roadStatuses = statuses(take(findMany(roadStore), 100))]
    /\ UNCHANGED <<clock, config, stores, inflight, weatherInFlight>>

\* GET /api/peaks/[id]/conditions
GetConditions ==
    /\ \E user \in BOOLEAN :
        lastOp' = IF user
                  THEN [Note("conditions") EXCEPT
                           !.displayed = TRUE,
                           !.landStatuses = statuses(findMany(landStore)),
                           !.roadStatuses = statuses(findMany(roadStore))]
                  ELSE [Note("conditions") EXCEPT !.rejected = TRUE]
    /\ UNCHANGED <<clock, config, stores, inflight, weatherInFlight, render>>

\* POST /api/jobs/refresh-land-status
RefreshLandStatusJob(results) ==
    /\ \E answer \in results[FIRECRAWL_API_KEY, peakRow, clock] :
        /\ Len(landStore) + Len(roadStore) + Len(answer.land) <= MaxSnapshots
        /\ landStore' = create(landStore, answer.land)
        /\ lastOp' = [Note("refresh-land-status") EXCEPT
                         !.rejected = answer.status # 200, !.inserted = Len(answer.land)]
    /\ UNCHANGED <<clock, config, roadStore, weatherStore, inflight, weatherInFlight, render>>

\* POST /api/jobs/refresh-road-status
RefreshRoadStatusJob(results) ==
    /\ \E answer \in results[FIRECRAWL_API_KEY, peakRow, clock] :
        /\ Len(landStore) + Len(roadStore) + Len(answer.road) <= MaxSnapshots
        /\ roadStore' = create(roadStore, answer.road)
        /\ lastOp' = [Note("refresh-road-status") EXCEPT
                         !.rejected = answer.status # 200, !.inserted = Len(answer.road)]
    /\ UNCHANGED <<clock, config, landStore, weatherStore, inflight, weatherInFlight, render>>

\* POST /api/jobs/refresh-weather
RefreshWeatherJob ==
    /\ \E request \in Requests, weatherOk \in BOOLEAN :
        LET Answered(answer) ==
                /\ Len(weatherStore) + Len(answer.weather) <= MaxWeather
                /\ weatherStore' = weatherStore \o answer.weather
                /\ lastOp' = [Note("refresh-weather") EXCEPT
                                 !.rejected = answer.status # 200,
                                 !.inserted = Len(answer.weather),
                                 !.weatherFailed = answer.failed > 0]
        IN  Answered(refreshWeather(peakRow, clock, request, weatherOk))
    /\ UNCHANGED <<clock, config, landStore, roadStore, inflight, weatherInFlight, render>>

\* the reprocess-status-summaries script; it counts the rows it updates
ReprocessStatusSummaries(parser) ==
    LET Updated(store) ==
            Cardinality({i \in DOMAIN store : reprocess(parser, store[i]) # store[i]})
    IN  /\ landStore' = [i \in DOMAIN landStore |-> reprocess(parser, landStore[i])]
        /\ roadStore' = [i \in DOMAIN roadStore |-> reprocess(parser, roadStore[i])]
        /\ lastOp' = [Note("reprocess-status-summaries") EXCEPT
                         !.updated = Updated(landStore) + Updated(roadStore)]
    /\ UNCHANGED <<clock, config, weatherStore, inflight, weatherInFlight, render>>

\* one step of the system, given the results a fetch and the two jobs can
\* have and what the parser makes of a raw text
Step(fetches, landJobs, roadJobs, parser) ==
    \/ Tick
    \/ RefreshPeakStatus
    \/ \E k \in peakRow.sources, origin \in {"racing", "abandoned", "background"} :
          CompleteFetch(fetches, k, origin)
    \/ CompleteWeather
    \/ PeakConditionsPage
    \/ \E k \in peakRow.sources : PerSourceTimeout(k)
    \/ PageAfterWait
    \/ PageAfterWeather
    \/ GetConditions
    \/ RefreshLandStatusJob(landJobs)
    \/ RefreshRoadStatusJob(roadJobs)
    \/ RefreshWeatherJob
    \/ ReprocessStatusSummaries(parser)

Next == Step(usualResults, landJobResults, roadJobResults, parsed)

Spec == Init /\ [][Next]_vars

(***************************************************************************)
(* One call of fetchStatusForSource, awaited, at any hour and under every   *)
(* answer of the upstreams and of the store; the call is the first.        *)
(***************************************************************************)
\* await fetchStatusForSource(...) for source k while the environment does up
FetchStatusForSource(parser, k, up) ==
    LET Settled(r) ==
            /\ landStore' = create(landStore, r.land)
            /\ roadStore' = create(roadStore, r.road)
            /\ lastOp' = [Note("fetch") EXCEPT
                             !.k = k, !.origin = "awaited", !.rejected = r.rejected,
                             !.apiCalled = r.apiCalled, !.scraped = r.scraped,
                             !.apiFailed = r.apiFailed,
                             !.inserted = Len(r.land) + Len(r.road),
                             !.up = up, !.rows = r.land \o r.road]
    IN  /\ lastOp.op = "init"
        /\ Settled(fetchStatusForSource(parser, FIRECRAWL_API_KEY, peakRow, Sources[k].id,
                                        Sources[k].sourceType, Sources[k].url, clock, up))
        /\ UNCHANGED <<clock, config, weatherStore, inflight, weatherInFlight, render>>

\* the length of the longest error message of the scraping service
MaxMessage == 10000

\* the scraping service fails with a message of MaxMessage characters (the
\* message of its error carries the body of the response), while the store
\* works and the lane closure API fails
WordyFailures ==
    LET late == CHOOSE a \in ScrapeAnswers : a.kind = "late"
        wordy == [kind |-> "error", message |-> [i \in 1..MaxMessage |-> 120],
                  statusCode |-> 0, markdown |-> <<>>, html |-> <<>>, content |-> <<>>]
    IN  {[findUnique |-> TRUE, createRoad |-> TRUE, create |-> TRUE,
          api |-> CHOOSE a \in ApiAnswers : \A i \in DOMAIN a : a[i].kind = "error",
          quick |-> <<late, late>>, scrape |-> wordy]}

FetchStep(parser) ==
    \E k \in peakRow.sources, up \in Upstreams \cup WordyFailures :
        FetchStatusForSource(parser, k, up)

\* the deployments of the call: those above and a peak with coordinates, a
\* land manager source, the map source and a county road source
FetchDeployments ==
    Deployments
    \cup {[peak |-> [name |-> Chars("Mount Baldy"), gpsLat |-> <<34>>, gpsLng |-> <<-117>>,
                    sources |-> {1, 2, 3}],
           apiKey |-> TRUE, forceStatusRefresh |-> FALSE]}

InitFetch == InitOf(Hours, FetchDeployments)

NextFetch == FetchStep(parsed)

SpecFetch == InitFetch /\ [][NextFetch]_vars

(***************************************************************************)
(* One scheduled job, posted once, at any hour, with every request and     *)
(* under every answer of the upstreams and of the store.                   *)
(***************************************************************************)
\* POST /api/jobs/refresh-land-status with the given request
PostRefreshLandStatus(parser, request, up) ==
    LET Answered(answer) ==
            /\ landStore' = create(landStore, answer.land)
            /\ lastOp' = [Note("refresh-land-status") EXCEPT
                             !.rejected = answer.status # 200,
                             !.inserted = Len(answer.land),
                             !.request = request, !.up = up, !.answer = answer]
    IN  /\ lastOp.op = "init"
        /\ Answered(refreshLandStatus(parser, FIRECRAWL_API_KEY, peakRow, clock, request, up))
        /\ UNCHANGED <<clock, config, roadStore, weatherStore, inflight, weatherInFlight,
                       render>>

\* POST /api/jobs/refresh-road-status with the given request
PostRefreshRoadStatus(parser, request, up) ==
    LET Answered(answer) ==
            /\ roadStore' = create(roadStore, answer.road)
            /\ lastOp' = [Note("refresh-road-status") EXCEPT
                             !.rejected = answer.status # 200,
                             !.inserted = Len(answer.road),
                             !.request = request, !.up = up, !.answer = answer]
    IN  /\ lastOp.op = "init"
        /\ Answered(refreshRoadStatus(parser, FIRECRAWL_API_KEY, peakRow, clock, request, up))
        /\ UNCHANGED <<clock, config, landStore, weatherStore, inflight, weatherInFlight,
                       render>>

\* POST /api/jobs/refresh-weather with the given request
PostRefreshWeather(request, weatherOk) ==
    LET Answered(answer) ==
            /\ weatherStore' = weatherStore \o answer.weather
            /\ lastOp' = [Note("refresh-weather") EXCEPT
                             !.rejected = answer.status # 200,
                             !.inserted = Len(answer.weather),
                             !.weatherFailed = answer.failed > 0,
                             !.request = request, !.answer = answer]
    IN  /\ lastOp.op = "init"
        /\ Answered(refreshWeather(peakRow, clock, request, weatherOk))
        /\ UNCHANGED <<clock, config, landStore, roadStore, inflight, weatherInFlight,
                       render>>

JobStep(parser) ==
    \/ \E request \in Requests, up \in Upstreams : PostRefreshLandStatus(parser, request, up)
    \/ \E request \in Requests, up \in Upstreams : PostRefreshRoadStatus(parser, request, up)
    \/ \E request \in Requests, weatherOk \in BOOLEAN : PostRefreshWeather(request, weatherOk)

InitJobs == InitOf(Hours, FetchDeployments)

NextJobs == JobStep(parsed)

SpecJobs == InitJobs /\ [][NextJobs]_vars

(***************************************************************************)
(* The status parser on its own: one call of inferStatusFromText or of     *)
(* generateDetailedSummary on a text drawn from the inputs below.          *)
(***************************************************************************)
\* the keyword lists of inferStatusFromText with the status code of each, in
\* the order the function tests them; the last list ends with the plain
\* "closed" the function accepts under conditions
keywordGroups ==
    << [statusCode |-> "restricted",
        keywords |-> {"restricted", "limited access", "permit required",
                      "special restrictions", "lane closure", "construction",
                      "accident", "incident", "delay"}],
       [statusCode |-> "chains_required",
        keywords |-> {"chains required", "chains are required", "chain control",
                      "snow chains"}],
       [statusCode |-> "closed",
        keywords |-> {"road closed", "fully closed", "temporarily closed",
                      "permanently closed", "full closure", "closed"}],
       [statusCode |-> "open",
        keywords |-> {"open", "accessible", "available"}] >>

\* the texts inferStatusFromText is called on: a notice naming no keyword or
\* one keyword of each list, the lists in either order, and two notices of
\* the road pages
StatusTexts ==
    LET Pick(g) == {<<>>} \cup {<<Chars(w)>> : w \in keywordGroups[g].keywords}
        Notice(names) == Chars("Notice: ") \o join(names, Chars("; "))
    IN  {Notice(r \o c \o x \o o) : r \in Pick(1), c \in Pick(2), x \in Pick(3), o \in Pick(4)}
        \cup {Notice(o \o x \o c \o r) :
                 r \in Pick(1), c \in Pick(2), x \in Pick(3), o \in Pick(4)}
        \cup {Chars("Lane closure ahead due to construction"),
              Chars("Chains required above 5000 ft, road otherwise open")}

\* the texts generateDetailedSummary is called on: a blank text, a page of
\* the land manager, a closure notice next to a fire prevention banner, and
\* the legend of the road map
SummaryTexts ==
    { Chars("  "),
      Chars("The trail is open and accessible to all hikers"),
      Chars("Area closed due to wildfire. Help prevent human-caused fires."),
      Chars("Legend: Lane Closure, Lane Closures, Full Closure, Chain Control, Chains Required, Road Closed, Construction, Accident, Incident, Delay, Restricted") }

\* the length limits generateDetailedSummary is called with: its default and
\* a short one
MaxLengths == {250, 40}

\* inferStatusFromText(rawText).statusCode and generateDetailedSummary(rawText,
\* maxLength), computed once for the texts and limits above
summaries ==
    [rawText \in SummaryTexts |->
        [statusCode |-> inferStatusFromText(rawText),
         detailedSummary |-> [maxLength \in MaxLengths |->
                                 generateDetailedSummary(rawText, maxLength)]]]

\* inferStatusFromText(rawText)
InferStatusFromText(rawText) ==
    /\ lastOp.op = "init"
    /\ lastOp' = [Note("inferStatusFromText") EXCEPT
                     !.input = rawText, !.statusCode = inferStatusFromText(rawText)]
    /\ UNCHANGED <<clock, config, stores, inflight, weatherInFlight, render>>

\* parsedStatus = inferStatusFromText(rawText) and detailedSummary =
\* generateDetailedSummary(rawText, maxLength), as the fetchers call them on
\* the text of a page
GenerateDetailedSummary(results, rawText, maxLength) ==
    /\ lastOp.op = "init"
    /\ lastOp' = [Note("generateDetailedSummary") EXCEPT
                     !.input = rawText, !.maxLength = maxLength,
                     !.statusCode = results[rawText].statusCode,
                     !.output = results[rawText].detailedSummary[maxLength]]
    /\ UNCHANGED <<clock, config, stores, inflight, weatherInFlight, render>>

\* the texts cleanText is called on, all without markup: the texts above,
\* the pages, a sentence after the caption of an image, and a line of a
\* page's header with the word of the lock's caption between its words
CleanTexts ==
    SummaryTexts \cup Pages
    \cup { Chars("The trail  is open.  Parking is limited "),
           Chars("Image of the trailhead. The trail is open"),
           Chars("Skip to Https content") }

\* cleanText(text)
CleanText(text) ==
    /\ lastOp.op = "init"
    /\ lastOp' = [Note("cleanText") EXCEPT !.input = text, !.output = cleanText(text)]
    /\ UNCHANGED <<clock, config, stores, inflight, weatherInFlight, render>>

ParserStep(results) ==
    \/ \E rawText \in StatusTexts : InferStatusFromText(rawText)
    \/ \E rawText \in SummaryTexts, maxLength \in MaxLengths :
           GenerateDetailedSummary(results, rawText, maxLength)
    \/ \E text \in CleanTexts : CleanText(text)

NextParser == ParserStep(summaries)

SpecParser == Init /\ [][NextParser]_vars

(***************************************************************************)
(* The evaluator on its own: one call of ensureFreshStatus at a fixed hour *)
(* over stores that hold up to MaxHistory snapshots per table, written at  *)
(* earlier hours.                                                          *)
(***************************************************************************)
\* the hour of the call
EvaluatorHour == 8
\* the most snapshots a table holds before the call
MaxHistory == 2
\* the ages, in hours, of the status snapshots and of the weather snapshots
StatusAges == {1, 6, 7, 8}
WeatherAges == {1, 3, 4}

\* the tables of up to MaxHistory of the rows, each written at one of the
\* ages, in the order they were written
histories(rows, ages) ==
    LET At(row, age) == [row EXCEPT !.fetchedAt = EvaluatorHour - age]
        Written(n) ==
            {h \in [1..n -> rows \X ages] : \A i \in 1..(n - 1) : h[i][2] >= h[i + 1][2]}
    IN  UNION {{[i \in 1..n |-> At(h[i][1], h[i][2])] : h \in Written(n)} :
                  n \in 0..MaxHistory}

\* the rows fetchStatusForSource writes for source k of the peak
written(results, k) ==
    IF k \in peakRow.sources
    THEN {(r.land \o r.road)[1] :
             r \in {x \in results[FIRECRAWL_API_KEY, peakRow, k, 0] :
                       Len(x.land \o x.road) = 1}}
    ELSE {}

InitEvaluator(results) ==
    /\ clock = EvaluatorHour
    /\ \E deployment \in Deployments :
        /\ peakRow = deployment.peak
        /\ FIRECRAWL_API_KEY = deployment.apiKey
        /\ FORCE_REFRESH = deployment.forceStatusRefresh
    /\ landStore \in histories(written(results, 1), StatusAges)
    /\ roadStore \in histories(written(results, 2), StatusAges)
    /\ weatherStore \in histories({[source |-> "NOAA", fetchedAt |-> 0]}, WeatherAges)
    /\ inflight = [k \in DOMAIN Sources |->
                      [abandoned |-> 0, background |-> 0, together |-> FALSE]]
    /\ weatherInFlight = 0
    /\ render = [pc |-> "idle", pending |-> {}]
    /\ lastOp = Note("init")

\* ensureFreshStatus(peakId), called once by the server
EnsureFreshStatusCall ==
    /\ lastOp.op = "init"
    /\ EnsureFreshStatus(FORCE_REFRESH, weatherStore, Note("ensureFreshStatus"))
    /\ UNCHANGED <<clock, config, stores, render>>

InitEval == InitEvaluator(usualResults)

NextEvaluator == EnsureFreshStatusCall

SpecEvaluator == InitEval /\ [][NextEvaluator]_vars

(***************************************************************************)
(* The properties.                                                         *)
(***************************************************************************)
\* C1: every call of fetchStatusForSource that returns has inserted exactly
\* one snapshot into the store of its kind, whatever the API, the scrape and
\* the store calls did
C1_ExactlyOneInsert ==
    lastOp.op = "fetch" => lastOp.inserted = 1

\* the store of the kind of source k, and the snapshot of source k inserted
\* last, which has the greatest fetchedAt
storeOf(k) == IF Sources[k].sourceType = "LAND_MANAGER" THEN landStore ELSE roadStore
hasSnapshot(k) == \E i \in DOMAIN storeOf(k) : storeOf(k)[i].peakSourceId = Sources[k].id
latestOf(k) ==
    storeOf(k)[CHOOSE i \in DOMAIN storeOf(k) :
                  /\ storeOf(k)[i].peakSourceId = Sources[k].id
                  /\ \A j \in DOMAIN storeOf(k) :
                        storeOf(k)[j].peakSourceId = Sources[k].id => j <= i]

\* ensureFreshStatus was the last thing to run
ensured == lastOp.op = "refresh-peak-status" \/ (lastOp.op = "page" /\ lastOp.displayed)

\* C2: the page and GET conditions show, for every source with a snapshot,
\* the snapshot of that source with the greatest fetchedAt
C2_LatestShown ==
    lastOp.displayed =>
        \A k \in DOMAIN Sources :
            LET shown == IF Sources[k].sourceType = "LAND_MANAGER"
                         THEN lastOp.landStatuses ELSE lastOp.roadStatuses
            IN  hasSnapshot(k) =>
                    /\ Sources[k].id \in DOMAIN shown
                    /\ storeOf(k)[shown[Sources[k].id]].fetchedAt = latestOf(k).fetchedAt

\* C3: with the force flag unset, ensureFreshStatus starts no fetch for a
\* source whose most recent snapshot is a successful one no older than the
\* threshold, whatever older snapshots the source has
C3_FreshNotRefetched ==
    (ensured /\ ~lastOp.force) =>
        \A k \in lastOp.started :
            ~ /\ hasSnapshot(k)
              /\ latestOf(k).statusCode # "unknown"
              /\ clock - latestOf(k).fetchedAt <= STALE_THRESHOLD_HOURS

\* C4: when every endpoint of the lane closure API errors or answers non-OK,
\* fetchStatusForSource stores no snapshot made from the API and goes on to
\* scrape the source
C4_ApiFailureFallsThrough ==
    (lastOp.op = "fetch" /\ lastOp.apiFailed) =>
        /\ lastOp.scraped
        /\ \A i \in DOMAIN lastOp.rows : lastOp.rows[i].rawText # Chars("[]")

\* the rows of a store before a step are the first rows of the store after it
grown(before, after) ==
    Len(before) <= Len(after) /\ SubSeq(after, 1, Len(before)) = before

\* the rows of a store before a step are those after it but for the summaries
resummarised(before, after) ==
    /\ Len(before) = Len(after)
    /\ \A i \in DOMAIN before :
          [after[i] EXCEPT !.statusSummary = before[i].statusSummary] = before[i]

statusSources ==
    {k \in peakRow.sources : Sources[k].sourceType \in {"LAND_MANAGER", "ROAD_STATUS"}}

\* C6: when refresh-peak-status has set FORCE_STATUS_REFRESH to 'true' and
\* called ensureFreshStatus, a fetch is started for every land and road
\* source of the peak, whatever the age or outcome of its latest snapshot
C6_ForceRefetchesAll ==
    (lastOp.op = "refresh-peak-status" /\ lastOp.env) => lastOp.started = statusSources

\* a snapshot a failure path has stored: one of the three summaries of a
\* failed scrape, or the last resort of the road status
degraded(snapshot) ==
    \/ snapshot.statusSummary \in
          { Chars("Source URL appears to be invalid or returns a 404 error. Please update the source URL in the admin interface."),
            Chars("Data fetch timed out. Please check the source for current conditions."),
            Chars("Unable to fetch data automatically. Please check the source for current conditions.") }
    \/ includes(toLowerCase(snapshot.statusSummary), "could not be automatically retrieved")

\* C7: for a road source whose latest snapshot is a degraded placeholder,
\* ensureFreshStatus starts a fetch even when the snapshot is younger than
\* the threshold
C7_DegradedRoadRefetched ==
    ensured =>
        \A k \in statusSources :
            (/\ Sources[k].sourceType = "ROAD_STATUS"
             /\ hasSnapshot(k)
             /\ degraded(latestOf(k))) => k \in lastOp.started

\* C8: a foreground fetch whose timer has fired is abandoned: when it
\* completes later, no snapshot from it is added to the store
C8_LoserDiscarded ==
    (lastOp.op = "fetch" /\ lastOp.origin = "abandoned") => lastOp.inserted = 0

\* the snapshots of source k in its store
snapshotsOf(k) == SelectSeq(storeOf(k), LAMBDA s : s.peakSourceId = Sources[k].id)

\* C9: when two background fetches of one source, started by overlapping
\* calls of ensureFreshStatus, complete, each appends the snapshot it made:
\* the rows stored before stay as they are and the store grows by the rows
\* of the completing fetch
C9_ConcurrentFetchesAppend ==
    [][(lastOp'.op = "fetch" /\ lastOp'.together) =>
          /\ grown(landStore, landStore') /\ grown(roadStore, roadStore')
          /\ Len(landStore') + Len(roadStore')
                = Len(landStore) + Len(roadStore) + lastOp'.inserted]_vars

\* the second of two overlapping fetches of a source has appended its
\* snapshot next to the first one's
C9_Witness ==
    /\ lastOp.op = "fetch" /\ lastOp.together /\ lastOp.inserted = 1
    /\ Len(snapshotsOf(lastOp.k)) = 2
    /\ snapshotsOf(lastOp.k)[1].fetchedAt = snapshotsOf(lastOp.k)[2].fetchedAt

\* C10: fetchStatusForSource never rejects to its caller, whatever the API,
\* the scrape and the reads and writes of the store do
C10_NeverRejects ==
    lastOp.op = "fetch" => ~lastOp.rejected

\* a call has returned although the insert of its snapshot was refused
C10_Witness ==
    /\ lastOp.op = "fetch" /\ lastOp.origin = "awaited" /\ lastOp.scraped
    /\ ~lastOp.up.create /\ lastOp.inserted = 0 /\ ~lastOp.rejected

\* what the scrape of the source did in the call last made
scrapeOfSource ==
    scrapeUrl(FIRECRAWL_API_KEY, Sources[lastOp.k].url, 20000, lastOp.up.scrape)

\* the category of a failed scrape: NotFound for an answer with status 404 or
\* 410 and for a page under 500 characters with a not-found marker, Timeout
\* for an answer that comes too late, Unavailable for every other failure
failureCategory(configured, answer) ==
    LET rawText == IF answer.markdown # <<>> THEN answer.markdown
                   ELSE IF answer.html # <<>> THEN answer.html ELSE answer.content
    IN  IF ~configured THEN "Unavailable"
        ELSE IF /\ answer.kind = "result"
                /\ \/ answer.statusCode \in {404, 410}
                   \/ /\ Len(rawText) < 500
                      /\ includesAny(toLowerCase(rawText), {"404", "page not found", "not found"})
        THEN "NotFound"
        ELSE IF answer.kind = "late" THEN "Timeout"
        ELSE "Unavailable"

\* the summary that explains a category
categorySummary(category) ==
    IF category = "NotFound"
    THEN Chars("Source URL appears to be invalid or returns a 404 error. Please update the source URL in the admin interface.")
    ELSE IF category = "Timeout"
    THEN Chars("Data fetch timed out. Please check the source for current conditions.")
    ELSE Chars("Unable to fetch data automatically. Please check the source for current conditions.")

\* C11: when the scrape of a land or road source fails, the snapshot stored
\* has statusCode unknown and the summary of the failure's category,
\* NotFound before Timeout before Unavailable, never the text of the error
C11_FailureSummaryByCategory ==
    (lastOp.op = "fetch" /\ lastOp.scraped /\ lastOp.rows # <<>> /\ scrapeOfSource.threw) =>
        /\ lastOp.rows[1].statusCode = "unknown"
        /\ lastOp.rows[1].statusSummary
              = categorySummary(failureCategory(FIRECRAWL_API_KEY, lastOp.up.scrape))
        /\ lastOp.rows[1].statusSummary # scrapeOfSource.message

(***************************************************************************)
(* The system with its timers: a timer that was set fires, and the render  *)
(* goes on once the promise it awaits is settled.                          *)
(***************************************************************************)
SpecTimers ==
    /\ Spec
    /\ \A k \in DOMAIN Sources : WF_vars(PerSourceTimeout(k))
    /\ WF_vars(PageAfterWait)

\* C12: the wait of a render for its foreground fetches ends, whether or not
\* any of the fetches ever completes, and the render goes on to read the
\* snapshots
C12_WaitEnds ==
    /\ [][(render.pc = "waiting" /\ render'.pc = "idle") => render.pending = {}]_vars
    /\ (render.pc = "waiting") ~> (lastOp.op = "page" /\ lastOp.displayed)

\* a render has gone on after its wait and shows no snapshot: the timer of
\* every fetch has fired and the fetches are still in flight
C12_Witness ==
    /\ lastOp.op = "page" /\ lastOp.displayed
    /\ landStore = <<>> /\ roadStore = <<>>
    /\ \A k \in statusSources : inflight[k].abandoned = 1

\* C13: ensureFreshStatus returns while every fetch it has started, of a
\* status or of the weather, is still in flight, and it returns without a
\* rejection; no fetch has settled when it returns
C13_ReturnsWithoutWaiting ==
    [][(\/ lastOp'.op = "refresh-peak-status"
        \/ lastOp'.op = "page" /\ lastOp'.displayed /\ render.pc = "idle") =>
          /\ ~lastOp'.rejected
          /\ landStore' = landStore /\ roadStore' = roadStore
          /\ \A k \in DOMAIN Sources :
                inflight'[k].background
                   = inflight[k].background + (IF k \in lastOp'.started THEN 1 ELSE 0)
          /\ weatherInFlight'
                = weatherInFlight
                  + (IF ensureFreshWeather(lastOp'.force, peakRow, weatherStore', clock)
                     THEN 1 ELSE 0)]_vars

\* ensureFreshStatus has returned to the page with a status fetch and a
\* weather fetch it started still in flight
C13_Witness ==
    /\ lastOp.op = "page" /\ lastOp.displayed /\ lastOp.started # {}
    /\ \A k \in lastOp.started : inflight[k].background = 1
    /\ weatherInFlight = 1

\* C14: a page render starts a background refresh for every source of the
\* peak that has snapshots of which the latest is older than the threshold
C14_StaleRefreshedOnRender ==
    (lastOp.op = "page" /\ lastOp.origin # "waited") =>
        \A k \in statusSources :
            (hasSnapshot(k) /\ isStale(<<latestOf(k).fetchedAt>>, clock)) =>
                (lastOp.displayed /\ k \in lastOp.started /\ inflight[k].background > 0)

\* the status code of the first keyword list, in the order of keywordGroups,
\* of which the text holds a keyword; unknown when it holds none
firstGroupPresent(rawText) ==
    LET present == {g \in DOMAIN keywordGroups :
                       includesAny(toLowerCase(rawText), keywordGroups[g].keywords)}
    IN  IF present = {} THEN "unknown"
        ELSE keywordGroups[CHOOSE g \in present : \A h \in present : g <= h].statusCode

hasRealAlertMarker(rawText) ==
    includesAny(toLowerCase(rawText),
                {"area closed", "trail closed", "road closed", "closure", "fire restriction",
                 "restricted", "warning", "advisory", "evacuation"})

\* the summary that says there is nothing to report
allClear == Chars("No active alerts or restrictions at this time.")

\* C16: generateDetailedSummary does not return the all-clear summary for a
\* text that holds a real alert marker, and the status code and the summary
\* computed from one text never pair closed or restricted with the all-clear.
C16_NoFabricatedAllClear ==
    lastOp.op = "generateDetailedSummary" /\ lastOp.output = allClear =>
        /\ ~hasRealAlertMarker(lastOp.input)
        /\ lastOp.statusCode \notin {"closed", "restricted"}

\* C17: the summary generateDetailedSummary(rawText, maxLength) returns is at
\* most maxLength characters long.
C17_SummaryWithinMaxLength ==
    lastOp.op = "generateDetailedSummary" => Len(lastOp.output) <= lastOp.maxLength

\* the lane closure API answered the call of the last fetch, and without a
\* closure
answeredWithoutClosures ==
    /\ lastOp.op = "fetch" /\ lastOp.apiCalled
    /\ Sources[lastOp.k].sourceType = "ROAD_STATUS"
    /\ includes(Sources[lastOp.k].url, "quickmap")
    /\ peakRow.gpsLat # <<>> /\ peakRow.gpsLng # <<>>
    /\ ~apiFails(lastOp.up.api)
    /\ fetchLaneClosuresByBoundingBox(peakRow.gpsLat[1], peakRow.gpsLng[1], 50,
                                      lastOp.up.api) = <<>>

\* C18: when the lane closure API answers without closures for a map source
\* of a peak with coordinates, fetchStatusForSource stores one snapshot, open
\* and with the summary of no active lane closures, and scrapes nothing.
C18_NoClosuresStoredOpen ==
    answeredWithoutClosures =>
        /\ lastOp.inserted = 1
        /\ lastOp.rows[1].statusCode = "open"
        /\ lastOp.rows[1].statusSummary =
               Chars("No active lane closures reported in this area.")
        /\ ~lastOp.scraped

\* the rows of a store written for source k
ownRows(store, k) == SelectSeq(store, LAMBDA row : row.peakSourceId = Sources[k].id)

\* source k has one snapshot, of the given age
oneSnapshotAged(k, age) ==
    Len(ownRows(storeOf(k), k)) = 1 /\ clock - latestOf(k).fetchedAt = age

\* C19: in a call of ensureFreshStatus the decision for a source is the one
\* the call would take with the snapshots of that source alone; of two
\* sources of a peak with one snapshot each, 8 h and 1 h old, the fetch is
\* started for the one 8 h old only; a source without snapshot gets a fetch.
C19_DecisionPerSource ==
    lastOp.op = "ensureFreshStatus" =>
        /\ \A k \in peakRow.sources :
              /\ k \in lastOp.started <=>
                    k \in ensureFreshStatus(lastOp.force, peakRow,
                                            ownRows(landStore, k), ownRows(roadStore, k),
                                            clock)
              /\ ~hasSnapshot(k) => k \in lastOp.started
        /\ \A k, other \in peakRow.sources :
              (~lastOp.force /\ oneSnapshotAged(k, 8) /\ oneSnapshotAged(other, 1)) =>
                  lastOp.started = {k}

\* the call found one source 8 h old and the other 1 h old and started the
\* fetch of the first
C19_Witness ==
    /\ lastOp.op = "ensureFreshStatus" /\ ~lastOp.force
    /\ \E k, other \in peakRow.sources :
          /\ oneSnapshotAged(k, 8) /\ oneSnapshotAged(other, 1)
          /\ lastOp.started = {k}

\* the greatest fetchedAt of the weather snapshots
latestWeatherAt ==
    CHOOSE t \in {weatherStore[i].fetchedAt : i \in DOMAIN weatherStore} :
        \A i \in DOMAIN weatherStore : weatherStore[i].fetchedAt <= t

\* C20: without the force flag, a source with at most one snapshot gets a
\* fetch exactly when it has none or the snapshot is more than 6 hours old,
\* and the weather of a peak with coordinates is fetched exactly when there
\* is no weather snapshot or the one with the greatest fetchedAt is more than
\* 3 hours old; at 6 and at 3 hours nothing is fetched.
C20_StalePastThresholdOnly ==
    (lastOp.op = "ensureFreshStatus" /\ ~lastOp.force) =>
        /\ \A k \in peakRow.sources :
              Len(ownRows(storeOf(k), k)) <= 1 =>
                  (k \in lastOp.started <=>
                      (~hasSnapshot(k) \/ clock - latestOf(k).fetchedAt > 6))
        /\ peakRow.gpsLat # <<>> =>
              (weatherInFlight = 1 <=>
                  (weatherStore = <<>> \/ clock - latestWeatherAt > 3))

\* the call found a road snapshot exactly 6 hours old and the latest weather
\* exactly 3 hours old, and started no fetch
C20_Witness ==
    /\ lastOp.op = "ensureFreshStatus" /\ ~lastOp.force
    /\ peakRow.gpsLat # <<>>
    /\ oneSnapshotAged(2, 6) /\ lastOp.started = {}
    /\ Len(weatherStore) = 2 /\ clock - latestWeatherAt = 3 /\ weatherInFlight = 0

\* the snapshot of source k the page shows, given the table of the source
shownRow(store, k) ==
    store[newMap(take(findMany(store), 100))[Sources[k].id].id]

\* the step was a refresh that wrote to the table nothing but failure
\* placeholders
failedRefresh(before, after) ==
    /\ lastOp'.op \in {"fetch", "refresh-land-status", "refresh-road-status"}
    /\ grown(before, after)
    /\ \A i \in (Len(before) + 1)..Len(after) : degraded(after[i])

C22_WeatherFailureLeavesStore ==
    [][lastOp'.weatherFailed =>
          /\ weatherStore' = weatherStore
          /\ landStore' = landStore /\ roadStore' = roadStore
          /\ lastOp'.inserted = 0
          /\ lastOp'.op = "page" => (lastOp'.displayed \/ render'.pc = "waiting")
          /\ lastOp'.op = "refresh-weather" => ~lastOp'.rejected]_vars

\* the background weather fetch failed while a weather snapshot was stored
C22_Witness ==
    lastOp.op = "weather" /\ lastOp.weatherFailed /\ Len(weatherStore) = 1

\* source k is a road status source whose URL names the provider of the lane
\* closure API
caltransSource(k) ==
    /\ Sources[k].sourceType \in {"ROAD_STATUS", "Road Status"}
    /\ includesAny(Sources[k].url, {"caltrans", "dot.ca.gov", "quickmap", "alpha.ca.gov",
                                    "roads.dot.ca.gov"})

\* the peak row holds both coordinates
hasCoordinates == peakRow.gpsLat # <<>> /\ peakRow.gpsLng # <<>>

\* C23: fetchStatusForSource calls the lane closure API only for a road
\* status source of the provider and a peak with coordinates; for a land
\* source, a road source of another site and a peak without coordinates it
\* calls no API and scrapes the URL of the source.
C23_ApiOnlyForProviderRoadWithCoordinates ==
    lastOp.op = "fetch" =>
        /\ lastOp.apiCalled => caltransSource(lastOp.k) /\ hasCoordinates
        /\ ~(caltransSource(lastOp.k) /\ hasCoordinates) =>
               ~lastOp.apiCalled /\ lastOp.scraped

\* the last fetch scraped the URL of its source and the scrape returned the
\* text of a page
scrapeSucceeded ==
    /\ lastOp.op = "fetch" /\ lastOp.scraped
    /\ ~scrapeUrl(FIRECRAWL_API_KEY, Sources[lastOp.k].url, 20000, lastOp.up.scrape).threw

\* the text of the page the last fetch scraped
scrapedText ==
    scrapeUrl(FIRECRAWL_API_KEY, Sources[lastOp.k].url, 20000, lastOp.up.scrape).rawText

\* C24: when the scrape succeeds, fetchStatusForSource hands the store one
\* snapshot with the status code and the summary parsed from the text,
\* whatever they are, and it is stored when the store accepts the insert: a
\* text without status is stored with statusCode unknown as any other,
\* neither dropped nor stored as a failed fetch.
C24_ParsedStoredAsIs ==
    scrapeSucceeded =>
        /\ lastOp.up.create => lastOp.inserted = 1
        /\ \A i \in DOMAIN lastOp.rows :
              /\ lastOp.rows[i].statusCode = parsed[scrapedText].statusCode
              /\ lastOp.rows[i].statusSummary = parsed[scrapedText].detailedSummary
              /\ lastOp.rows[i].rawText = slice(scrapedText, 10000)
              /\ ~degraded(lastOp.rows[i])

\* a page without any status keyword was scraped and stored
C24_Witness ==
    /\ scrapeSucceeded /\ lastOp.inserted = 1
    /\ parsed[scrapedText].statusCode = "unknown"
    /\ lastOp.rows[1].statusCode = "unknown"
    /\ lastOp.rows[1].rawText = scrapedText

\* the last step posted one of the three refresh jobs
jobPosted == lastOp.op \in {"refresh-land-status", "refresh-road-status", "refresh-weather"}

\* C25: with CRON_SECRET set, a POST to a refresh job whose Authorization
\* header is not exactly "Bearer <CRON_SECRET>" is answered 401, calls no
\* upstream, attempts no source or peak and inserts nothing: the three
\* stores are as they were.
C25_UnauthorizedChangesNothing ==
    [][(/\ jobPosted'
        /\ lastOp'.request.cronSecret
        /\ lastOp'.request.authorization # "Bearer secret") =>
           /\ lastOp'.answer.status = 401
           /\ lastOp'.answer.fetches = 0
           /\ lastOp'.answer.attempted = <<>>
           /\ lastOp'.inserted = 0
           /\ landStore' = landStore
           /\ roadStore' = roadStore
           /\ weatherStore' = weatherStore]_vars

\* the road job was posted with another secret while the scraping key is
\* set, the peak has two road sources and the store accepts inserts
C25_Witness ==
    /\ lastOp.op = "refresh-road-status"
    /\ lastOp.request.cronSecret /\ lastOp.request.authorization = "Bearer other"
    /\ lastOp.answer.status = 401
    /\ FIRECRAWL_API_KEY /\ peakRow.sources = {1, 2, 3}
    /\ lastOp.up.create /\ lastOp.up.createRoad /\ lastOp.up.findUnique
    /\ roadStore = <<>>

\* the sources or peaks a job is to attempt, in the order of its loop: the
\* sources of the job's type, or the peak when it has coordinates
eligible(op) ==
    LET ofType(sourceType) ==
            SelectSeq([k \in DOMAIN Sources |-> k],
                      LAMBDA k : k \in peakRow.sources /\ Sources[k].sourceType = sourceType)
        ids(ks) == [i \in DOMAIN ks |-> Sources[ks[i]].id]
    IN  IF op = "refresh-land-status" THEN ids(ofType("LAND_MANAGER"))
        ELSE IF op = "refresh-road-status" THEN ids(ofType("ROAD_STATUS"))
        ELSE IF /\ peakRow.gpsLat # <<>> /\ peakRow.gpsLat[1] # 0
                /\ peakRow.gpsLng # <<>> /\ peakRow.gpsLng[1] # 0
        THEN <<peakRow.name>> ELSE <<>>


C27_RawTextBounded ==
    /\ \A i \in DOMAIN landStore : Len(landStore[i].rawText) <= 10000
    /\ \A i \in DOMAIN roadStore : Len(roadStore[i].rawText) <= 10000

\* C28: cleanText returns a text without markup as it is, apart from the
\* white space it collapses and trims, and cleaning a cleaned text changes
\* nothing: cleanText(cleanText(t)) = cleanText(t).
C28_CleanTextIdempotent ==
    lastOp.op = "cleanText" =>
        /\ lastOp.output = trim(collapseSpace(lastOp.input))
        /\ cleanText(lastOp.output) = lastOp.output

\* C29: every render of the page reaches its display after a bounded wait,
\* whatever the upstreams do: once the page awaits an upstream, for the
\* weather it fetches itself or for the status of the missing sources, it
\* comes to show the page.
C29_RenderReachesDisplay ==
    (render.pc \in {"weather", "waiting"}) ~> (lastOp.op = "page" /\ lastOp.displayed)

\* the closures the lane closure API answered the last fetch with
answeredClosures ==
    fetchLaneClosuresByBoundingBox(peakRow.gpsLat[1], peakRow.gpsLng[1], 50, lastOp.up.api)

\* a record of a lane closure: its type does not name a full closure, its
\* description mentions a lane closure and not a closed road
laneClosure(c) ==
    /\ c.closureType.t = "string" /\ ~includes(toLowerCase(c.closureType.s), "full")
    /\ c.description.t = "string"
    /\ includes(toLowerCase(c.description.s), "lane closure")
    /\ ~includes(toLowerCase(c.description.s), "closed")

\* the last fetch stored the snapshot of the closures the API answered with,
\* every one of them with strings for its type and description
storedFromClosures ==
    /\ lastOp.op = "fetch" /\ lastOp.apiCalled /\ ~lastOp.scraped /\ lastOp.inserted = 1
    /\ ~apiFails(lastOp.up.api)
    /\ answeredClosures # <<>>
    /\ \A i \in DOMAIN answeredClosures :
          /\ answeredClosures[i].closureType.t = "string"
          /\ answeredClosures[i].description.t = "string"

\* C30: generateRoadStatusSummary keeps lane closures apart from full
\* closures: when the active records are lane closures only the status code
\* is restricted, and it is closed only when an active record is a full
\* closure.
C30_LaneClosuresRestricted ==
    storedFromClosures =>
        /\ (\A i \in DOMAIN answeredClosures : laneClosure(answeredClosures[i])) =>
               lastOp.rows[1].statusCode = "restricted"
        /\ lastOp.rows[1].statusCode = "closed" =>
               \E i \in DOMAIN answeredClosures :
                   includes(toLowerCase(answeredClosures[i].closureType.s), "full")

====
